---- MODULE Spec2Model ----
(***************************************************************************)
(* otel-relay: the Broadcast Server (internal/grpcserver/server.go), the   *)
(* daemon lifecycle (internal/grpcserver/stats.go), the proxy process and  *)
(* its two front ends (cmd/otel-relay/main.go, internal/proxy), the        *)
(* Inspector's HTTP path (inspector/inspector.go) and the socket-backed    *)
(* Emitter (internal/emitter/emitter.go).                                  *)
(*                                                                         *)
(* Specifications:                                                         *)
(*   Spec       a serving Server: Start, the Emit and Stream RPC handlers  *)
(*              and broadcastLoop, one producer and two consumers.         *)
(*   CloseSpec  the same with Close, called by two callers.                *)
(*   LifeSpec   two proxy processes calling EnsureServerRunning on one     *)
(*              socket path, each spawning a daemon process (RunDaemon).   *)
(*   StatsSpec  the serving Server with two producers emitting events of   *)
(*              every type, and one consumer: the Stats Ledger.            *)
(*   RunSpec    run() of one proxy process: its flags, EnsureServerRunning *)
(*              and the Start of its front ends (cmd/otel-relay/main.go,   *)
(*              internal/proxy).                                           *)
(*   ExportSpec the binary-RPC front end's Export handlers, two callers.   *)
(*   EmitFailSpec  the same handlers, one caller, the Emitter succeeding   *)
(*              or failing.                                                *)
(*   FairSpec   the serving Server with one consumer, under weak fairness  *)
(*              of broadcastLoop and of a Stream handler's cleanup.        *)
(*   EmitterSpec  two goroutines calling the socket-backed Emitter.        *)
(*   HttpSpec   the HTTP front end's handler: InspectHttpRequest and the   *)
(*              reverse proxy, for every configuration of the Inspector.   *)
(*   StopSpec   both front ends serving, with exports in progress, Stop,   *)
(*              Err and serving loops that end on their own.               *)
(*   SignalSpec run() from the Start of its front ends to its return: a    *)
(*              signal, the errors of the serving loops and stopProxies,   *)
(*              under weak fairness of each goroutine's steps.             *)
(*                                                                         *)
(* Each handler is a process whose steps are the handler's statements.     *)
(* s.mu makes the sections it guards atomic with respect to each other,    *)
(* so each guarded section is one action.  A channel operation is one      *)
(* action.  A Go panic ends the process: panicked records it and every     *)
(* action of the server is guarded by Alive.                               *)
(*                                                                         *)
(* grpc.Server.GracefulStop stops accepting connections and RPCs and       *)
(* blocks until every pending RPC has finished; an RPC has finished when   *)
(* its handler, deferred calls included, has returned.                     *)
(***************************************************************************)
EXTENDS Integers, Sequences, FiniteSets, TLC

\* ------------------------------------------------------------------ bounds
\* cap(s.broadcast) is 1000 and cap(streamCh) is 100 in the source; the model
\* keeps them as parameters and checks with small values.
BroadcastCap == 1
StreamCap == 2
\* Emit calls made in one behaviour of Spec, and of CloseSpec.
MaxEmits == 3
CloseEmits == 2
\* Export calls made in one behaviour of ExportSpec.
MaxCalls == 3
MaxEmitCalls == 3
\* HTTP requests made in one behaviour of HttpSpec.
MaxHttpCalls == 2
\* Emit calls made in one behaviour of StatsSpec.
StatEmits == 2

\* Polls EnsureServerRunning makes after spawning: for range 50.
MaxPolls == 50

Consumers == {"A", "B"}
Producers == {"p1", "p2"}
Closers == {"k1", "k2"}
\* Proxy processes calling EnsureServerRunning; the daemon a proxy spawns is
\* named after it.
Proxies == {"x1", "x2"}
\* The proxy process whose run() is followed.
Runner == "x1"
\* The HTTP and the binary-RPC front end, in the order run() appends them.
FrontEnds == {"http", "grpc"}
\* The services the binary-RPC front end registers, their callers, and the
\* errors an upstream call may return.
Services == {"trace", "metrics", "logs"}
Callers == {"a1", "a2"}
\* CLI.UpstreamHttp: unset, a URL that parses, one that url.Parse rejects.
UpstreamHttpFlags == {"", "url", "bad"}
UpstreamErrors == {"Unavailable", "DeadlineExceeded"}
NoRequest == [id |-> 0, service |-> "none"]
NoResult == [resp |-> "none", err |-> "none"]

\* inspector.TelemetryType values an Emit call may carry, and len(event.Data).
EventTypes == {"TRACE"}
DataLens == {1}

NoEvent == [id |-> 0, type |-> "NONE", len |-> 0]

VARIABLES
  \* ---- Server fields
  listening,     \* s.listener is bound and s.grpc accepts new RPCs
  grpcSet,       \* s.grpc != nil
  sockFile,      \* the entry at s.path: "none", "stale" or "own"
  broadcast,     \* s.broadcast: the buffered events, oldest first
  broadcastClosed,
  streams,       \* keys of s.streams
  streamsNil,    \* s.streams == nil
  streamCh,      \* [Consumers -> Seq(event)]: each Stream call's streamCh
  chClosed,      \* [Consumers -> BOOLEAN]
  closeOnce,     \* "fresh", "running", "done"
  stats,         \* DaemonStats
  \* ---- positions of the concurrent tasks
  startPc,       \* Start: "created", "listen", "started", "failed"
  loopPc,        \* broadcastLoop: "off", "recv", "dist", "exited"
  cur,           \* the event broadcastLoop holds
  cpc,           \* Stream call per consumer
  ppc,           \* Emit call per producer
  pev,           \* the event of the Emit call in progress
  kpc,           \* Close call per caller
  panicked,
  \* ---- history (not program state)
  emitted,       \* Emit calls that reached the select
  accepted,      \* events enqueued on s.broadcast, in order
  delivered,     \* [Consumers -> Seq(event)]: events stream.Send took
  regMark,       \* [Consumers -> Nat]: last accepted id at registration
  missed,        \* [Consumers -> BOOLEAN]: own queue was full at a distribution
  closeRuns,     \* times the function given to closeOnce.Do started
  \* ---- the daemon lifecycle: one socket path, proxies and their daemons
  pathEntry,     \* the entry at the path: "absent", "stale" or the daemon bound
  bound,         \* daemons whose listener is open
  dpc,           \* RunDaemon per daemon process
  xpc,           \* EnsureServerRunning per proxy
  polls,         \* [Proxies -> 0..MaxPolls]: polls made
  spawns,        \* [Proxies -> Nat]: children cmd.Start has started (history)
  \* ---- a proxy process: run() and its front ends
  cli,           \* the CLI flags run() reads
  rpc,           \* run(): its position, or how it returned
  toStart,       \* the front ends of proxies run() has still to Start
  fe,            \* [FrontEnds -> state]: constructed, Start's result
  feBound,       \* [FrontEnds -> BOOLEAN]: the listener is bound
  feServe,       \* [FrontEnds -> state]: the goroutine Start launched
  upstreamConn,  \* OTLPProxy.upstreamConn != nil
  startCalls,    \* the front ends Start was called on, in order (history)
  \* ---- the binary-RPC front end's Export handlers
  epc,           \* [Callers -> position]: an Export call in progress
  ereq,          \* [Callers -> request]: its service and its id
  client,        \* [Services -> BOOLEAN]: the service's client != nil
  eret,          \* [Callers -> result]: what the call returned
  calls,         \* Export calls begun
  inspected,     \* what the Inspector was handed, in order (history)
  emitterGot,    \* what the Emitter was handed, in order (history)
  upstreamGot,   \* the upstream's calls and what it answered (history)
  \* ---- the socket-backed Emitter of the proxy process
  mpc,           \* [Callers -> position]: an emit call in progress
  mkind,         \* [Callers -> kind]: the kind of event it emits
  eclient,       \* e.client: 0 for nil, a connection's number, or HalfSet
  econn,         \* e.conn: 0 for nil or a connection's number
  mconn,         \* [Callers -> Nat]: the conn a call's connect() made
  mret,          \* [Callers -> result]: what the emit call returned
  conns,         \* client connections grpc.NewClient has made (history)
  usedConns,     \* connections an Emit RPC was issued on (history)
  rpcs,          \* [Callers -> Nat]: Emit RPCs the current call issued (history)
  mcalls,        \* emit calls begun (history)
  \* ---- the Inspector's counters
  meters,        \* i.metrics: events written and dropped, exports received
  emitErrs,      \* ids of the requests whose emit returned an error (history)
  \* ---- the HTTP front end's handler
  reverseProxy,  \* the handler's reverseProxy: "none", "target" or "niltarget"
  iwriter,       \* i.writer != io.Discard
  hpc,           \* [Callers -> position]: an HTTP request being handled
  hreq,          \* [Callers -> request]: its id, path, content type and body stream
  hrest,         \* [Callers -> reader]: what r.Body still yields and how it ends
  hreadAll,      \* [Callers -> BOOLEAN]: io.ReadAll was called on its body (history)
  hpassed,       \* [Callers -> pass]: the body the reverse proxy sent upstream (history)
  hres,          \* [Callers -> response]: how the request was answered
  hcalls,        \* HTTP requests begun (history)
  \* ---- Stop and Err of the front ends
  serveErr,      \* [FrontEnds -> channel]: p.serveErr, its buffer and whether closed
  errPc,         \* [FrontEnds -> position]: the goroutine of run() that calls Err
  errRet,        \* [FrontEnds -> value]: what Err returned
  spc,           \* [FrontEnds -> position]: a call of Stop
  upstreamClosed, \* p.upstreamConn.Close() was called
  hcut,          \* [Callers -> BOOLEAN]: the request's connection was closed under it
  \* ---- run()'s shutdown
  waitErr,       \* waitErr: what the goroutines of run() have sent, oldest first
  sigChan,       \* sigChan holds a signal
  toStop,        \* the front ends stopProxies has still to Stop
  \* ---- history of Emit's error return
  errCtx         \* [Producers -> state]: the caller's context when its Emit took the error return

vars == <<listening, grpcSet, sockFile, broadcast, broadcastClosed, streams,
          streamsNil, streamCh, chClosed, closeOnce, stats, startPc, loopPc,
          cur, cpc, ppc, pev, kpc, panicked, emitted, accepted, delivered,
          regMark, missed, closeRuns, pathEntry, bound, dpc, xpc, polls,
          spawns, cli, rpc, toStart, fe, feBound, feServe, upstreamConn,
          startCalls, epc, ereq, client, eret, calls, inspected, emitterGot,
          upstreamGot, mpc, mkind, eclient, econn, mconn, mret, conns,
          usedConns, rpcs, mcalls, meters, emitErrs, reverseProxy, iwriter,
          hpc, hreq, hrest, hreadAll, hpassed, hres, hcalls, serveErr,
          errPc, errRet, spc, upstreamClosed, hcut, waitErr, sigChan,
          toStop, errCtx>>

\* --------------------------------------------------------------- helpers
Last(q) == q[Len(q)]
Ids(q) == {q[i].id : i \in 1..Len(q)}
AfterMark(q, m) == SelectSeq(q, LAMBDA e : e.id > m)
LastAcceptedId == IF accepted = <<>> THEN 0 ELSE Last(accepted).id
Alive == panicked = "none"

\* RPC handlers that have not returned.
StreamsInFlight == {c \in Consumers : cpc[c] \notin {"idle", "done"}}
EmitsInFlight == {p \in Producers : ppc[p] # "idle"}

\* ------------------------------------------------------------ NewServer
InitServer ==
  /\ listening = FALSE
  /\ grpcSet = FALSE
  /\ sockFile \in {"none", "stale"}
  /\ broadcast = <<>>
  /\ broadcastClosed = FALSE
  /\ streams = {}
  /\ streamsNil = FALSE
  /\ streamCh = [c \in Consumers |-> <<>>]
  /\ chClosed = [c \in Consumers |-> FALSE]
  /\ closeOnce = "fresh"
  /\ stats = [tracesObserved |-> 0, metricsObserved |-> 0, logsObserved |-> 0,
              bytesObserved |-> 0, activeReaders |-> 0, activeWriters |-> 0]
  /\ startPc = "created"
  /\ loopPc = "off"
  /\ cur = NoEvent
  /\ cpc = [c \in Consumers |-> "idle"]
  /\ ppc = [p \in Producers |-> "idle"]
  /\ pev = [p \in Producers |-> NoEvent]
  /\ kpc = [k \in Closers |-> "idle"]
  /\ panicked = "none"
  /\ emitted = 0
  /\ accepted = <<>>
  /\ delivered = [c \in Consumers |-> <<>>]
  /\ regMark = [c \in Consumers |-> 0]
  /\ missed = [c \in Consumers |-> FALSE]
  /\ closeRuns = 0
  /\ errCtx = [p \in Producers |-> "none"]

\* ----------------------------------------------------------------- Start
\* _ = os.Remove(s.path)
StartRemove ==
  /\ Alive /\ startPc = "created" /\ closeOnce = "fresh"
  /\ sockFile' = "none"
  /\ startPc' = "listen"
  /\ UNCHANGED <<listening, grpcSet, broadcast, broadcastClosed, streams,
                 streamsNil, streamCh, chClosed, closeOnce, stats, loopPc,
                 cur, cpc, ppc, pev, kpc, panicked, emitted, accepted,
                 delivered, regMark, missed, closeRuns, pathEntry, bound,
                 dpc, xpc, polls, spawns, cli, rpc, toStart, fe, feBound,
                 feServe, upstreamConn, startCalls, epc, ereq, client, eret,
                 calls, inspected, emitterGot, upstreamGot, mpc, mkind,
                 eclient, econn, mconn, mret, conns, usedConns, rpcs, mcalls,
                 meters, emitErrs, reverseProxy, iwriter, hpc, hreq, hrest,
                 hreadAll, hpassed, hres, hcalls, serveErr, errPc, errRet,
                 spc, upstreamClosed, hcut, waitErr, sigChan, toStop, errCtx>>

\* net.Listen succeeds: chmod, s.listener, s.grpc, go broadcastLoop, go Serve.
StartListenOk ==
  /\ Alive /\ startPc = "listen"
  /\ sockFile' = "own"
  /\ listening' = TRUE
  /\ grpcSet' = TRUE
  /\ loopPc' = "recv"
  /\ startPc' = "started"
  /\ UNCHANGED <<broadcast, broadcastClosed, streams, streamsNil, streamCh,
                 chClosed, closeOnce, stats, cur, cpc, ppc, pev, kpc,
                 panicked, emitted, accepted, delivered, regMark, missed,
                 closeRuns, pathEntry, bound, dpc, xpc, polls, spawns, cli,
                 rpc, toStart, fe, feBound, feServe, upstreamConn,
                 startCalls, epc, ereq, client, eret, calls, inspected,
                 emitterGot, upstreamGot, mpc, mkind, eclient, econn, mconn,
                 mret, conns, usedConns, rpcs, mcalls, meters, emitErrs,
                 reverseProxy, iwriter, hpc, hreq, hrest, hreadAll, hpassed,
                 hres, hcalls, serveErr, errPc, errRet, spc, upstreamClosed,
                 hcut, waitErr, sigChan, toStop, errCtx>>

\* net.Listen fails: Start returns the error before s.grpc is set.
StartListenErr ==
  /\ Alive /\ startPc = "listen"
  /\ startPc' = "failed"
  /\ UNCHANGED <<listening, grpcSet, sockFile, broadcast, broadcastClosed,
                 streams, streamsNil, streamCh, chClosed, closeOnce, stats,
                 loopPc, cur, cpc, ppc, pev, kpc, panicked, emitted,
                 accepted, delivered, regMark, missed, closeRuns, pathEntry,
                 bound, dpc, xpc, polls, spawns, cli, rpc, toStart, fe,
                 feBound, feServe, upstreamConn, startCalls, epc, ereq,
                 client, eret, calls, inspected, emitterGot, upstreamGot,
                 mpc, mkind, eclient, econn, mconn, mret, conns, usedConns,
                 rpcs, mcalls, meters, emitErrs, reverseProxy, iwriter, hpc,
                 hreq, hrest, hreadAll, hpassed, hres, hcalls, serveErr,
                 errPc, errRet, spc, upstreamClosed, hcut, waitErr, sigChan,
                 toStop, errCtx>>

\* ------------------------------------------------------------------ Emit
\* Emit without its default case taking the full queue for a failure.
SelectCasesFullFails(q, closed, ctxDone) ==
  LET sendReady == closed \/ Len(q) < BroadcastCap IN
    (IF sendReady THEN {IF closed THEN "panic" ELSE "send"} ELSE {})
    \cup (IF ctxDone \/ ~sendReady THEN {"ctx"} ELSE {})

\* The cases of Emit's select that can be chosen.  A send on a buffered
\* channel is ready while the buffer has room; a send on a closed channel is
\* ready and panics; default is taken only when no other case is ready.
SelectCases(q, closed, ctxDone) ==
  LET sendReady == closed \/ Len(q) < BroadcastCap IN
    (IF sendReady THEN {IF closed THEN "panic" ELSE "send"} ELSE {})
    \cup (IF ctxDone THEN {"ctx"} ELSE {})
    \cup (IF ~sendReady /\ ~ctxDone THEN {"default"} ELSE {})

\* The gRPC server hands an Emit RPC to the handler: activeWriters.Add(1).
EmitEnter(p, ev, max) ==
  /\ Alive /\ listening /\ ppc[p] = "idle"
  /\ emitted + Cardinality({x \in Producers : ppc[x] = "select"}) < max
  /\ ppc' = [ppc EXCEPT ![p] = "select"]
  /\ pev' = [pev EXCEPT ![p] = ev]
  /\ stats' = [stats EXCEPT !.activeWriters = @ + 1]
  /\ UNCHANGED <<listening, grpcSet, sockFile, broadcast, broadcastClosed,
                 streams, streamsNil, streamCh, chClosed, closeOnce, startPc,
                 loopPc, cur, cpc, kpc, panicked, emitted, accepted,
                 delivered, regMark, missed, closeRuns, pathEntry, bound,
                 dpc, xpc, polls, spawns, cli, rpc, toStart, fe, feBound,
                 feServe, upstreamConn, startCalls, epc, ereq, client, eret,
                 calls, inspected, emitterGot, upstreamGot, mpc, mkind,
                 eclient, econn, mconn, mret, conns, usedConns, rpcs, mcalls,
                 meters, emitErrs, reverseProxy, iwriter, hpc, hreq, hrest,
                 hreadAll, hpassed, hres, hcalls, serveErr, errPc, errRet,
                 spc, upstreamClosed, hcut, waitErr, sigChan, toStop, errCtx>>

\* select { case s.broadcast <- event: / case <-ctx.Done(): / default: }
\* The event gets its id, the number of this select among all selects.
EmitSelect(p, ctxDone) ==
  /\ Alive /\ ppc[p] = "select"
  /\ \E case \in SelectCases(broadcast, broadcastClosed, ctxDone) :
       LET ev == [pev[p] EXCEPT !.id = emitted + 1] IN
         /\ emitted' = emitted + 1
         /\ pev' = [pev EXCEPT ![p] = ev]
         /\ CASE case = "send" ->
                   /\ broadcast' = Append(broadcast, ev)
                   /\ accepted' = Append(accepted, ev)
                   /\ ppc' = [ppc EXCEPT ![p] = "stats"]
                   /\ UNCHANGED panicked
              [] case = "panic" ->
                   /\ panicked' = "send on closed channel"
                   /\ UNCHANGED <<broadcast, accepted, ppc>>
              [] case = "ctx" ->
                   /\ ppc' = [ppc EXCEPT ![p] = "ret_err"]
                   /\ UNCHANGED <<broadcast, accepted, panicked>>
              [] OTHER ->
                   /\ ppc' = [ppc EXCEPT ![p] = "ret_ok"]
                   /\ UNCHANGED <<broadcast, accepted, panicked>>
         /\ errCtx' = [errCtx EXCEPT ![p] =
                         IF case # "ctx" THEN @
                         ELSE IF ctxDone THEN "done" ELSE "open"]
  /\ UNCHANGED <<listening, grpcSet, sockFile, broadcastClosed, streams,
                 streamsNil, streamCh, chClosed, closeOnce, stats, startPc,
                 loopPc, cur, cpc, kpc, delivered, regMark, missed,
                 closeRuns, pathEntry, bound, dpc, xpc, polls, spawns, cli,
                 rpc, toStart, fe, feBound, feServe, upstreamConn,
                 startCalls, epc, ereq, client, eret, calls, inspected,
                 emitterGot, upstreamGot, mpc, mkind, eclient, econn, mconn,
                 mret, conns, usedConns, rpcs, mcalls, meters, emitErrs,
                 reverseProxy, iwriter, hpc, hreq, hrest, hreadAll, hpassed,
                 hres, hcalls, serveErr, errPc, errRet, spc, upstreamClosed,
                 hcut, waitErr, sigChan, toStop>>

\* A switch whose cases fall through: every kind counter moves.
ObserveEveryKind(st, ev) ==
  [st EXCEPT
     !.tracesObserved = @ + 1,
     !.metricsObserved = @ + 1,
     !.logsObserved = @ + 1,
     !.bytesObserved = @ + ev.len]

\* The counters added after the enqueue: one per kind, then the bytes.
Observe(st, ev) ==
  [st EXCEPT
     !.tracesObserved = IF ev.type = "TRACE" THEN @ + 1 ELSE @,
     !.metricsObserved = IF ev.type = "METRIC" THEN @ + 1 ELSE @,
     !.logsObserved = IF ev.type = "LOG" THEN @ + 1 ELSE @,
     !.bytesObserved = @ + ev.len]

EmitStats(p) ==
  /\ Alive /\ ppc[p] = "stats"
  /\ stats' = Observe(stats, pev[p])
  /\ ppc' = [ppc EXCEPT ![p] = "ret_ok"]
  /\ UNCHANGED <<listening, grpcSet, sockFile, broadcast, broadcastClosed,
                 streams, streamsNil, streamCh, chClosed, closeOnce, startPc,
                 loopPc, cur, cpc, pev, kpc, panicked, emitted, accepted,
                 delivered, regMark, missed, closeRuns, pathEntry, bound,
                 dpc, xpc, polls, spawns, cli, rpc, toStart, fe, feBound,
                 feServe, upstreamConn, startCalls, epc, ereq, client, eret,
                 calls, inspected, emitterGot, upstreamGot, mpc, mkind,
                 eclient, econn, mconn, mret, conns, usedConns, rpcs, mcalls,
                 meters, emitErrs, reverseProxy, iwriter, hpc, hreq, hrest,
                 hreadAll, hpassed, hres, hcalls, serveErr, errPc, errRet,
                 spc, upstreamClosed, hcut, waitErr, sigChan, toStop, errCtx>>

\* Emit whose decrement is skipped when it returns ctx.Err().
EmitReturnLeaksOnContextDone(p) ==
  /\ Alive /\ ppc[p] \in {"ret_ok", "ret_err"}
  /\ stats' = [stats EXCEPT !.activeWriters = IF ppc[p] = "ret_err" THEN @ ELSE @ - 1]
  /\ ppc' = [ppc EXCEPT ![p] = "idle"]
  /\ pev' = [pev EXCEPT ![p] = NoEvent]
  /\ errCtx' = [errCtx EXCEPT ![p] = "none"]
  /\ UNCHANGED <<listening, grpcSet, sockFile, broadcast, broadcastClosed,
                 streams, streamsNil, streamCh, chClosed, closeOnce, startPc,
                 loopPc, cur, cpc, kpc, panicked, emitted, accepted,
                 delivered, regMark, missed, closeRuns, pathEntry, bound,
                 dpc, xpc, polls, spawns, cli, rpc, toStart, fe, feBound,
                 feServe, upstreamConn, startCalls, epc, ereq, client, eret,
                 calls, inspected, emitterGot, upstreamGot, mpc, mkind,
                 eclient, econn, mconn, mret, conns, usedConns, rpcs, mcalls,
                 meters, emitErrs, reverseProxy, iwriter, hpc, hreq, hrest,
                 hreadAll, hpassed, hres, hcalls, serveErr, errPc, errRet,
                 spc, upstreamClosed, hcut, waitErr, sigChan, toStop>>

\* return: the deferred activeWriters.Add(-1).
EmitReturn(p) ==
  /\ Alive /\ ppc[p] \in {"ret_ok", "ret_err"}
  /\ stats' = [stats EXCEPT !.activeWriters = @ - 1]
  /\ ppc' = [ppc EXCEPT ![p] = "idle"]
  /\ pev' = [pev EXCEPT ![p] = NoEvent]
  /\ errCtx' = [errCtx EXCEPT ![p] = "none"]
  /\ UNCHANGED <<listening, grpcSet, sockFile, broadcast, broadcastClosed,
                 streams, streamsNil, streamCh, chClosed, closeOnce, startPc,
                 loopPc, cur, cpc, kpc, panicked, emitted, accepted,
                 delivered, regMark, missed, closeRuns, pathEntry, bound,
                 dpc, xpc, polls, spawns, cli, rpc, toStart, fe, feBound,
                 feServe, upstreamConn, startCalls, epc, ereq, client, eret,
                 calls, inspected, emitterGot, upstreamGot, mpc, mkind,
                 eclient, econn, mconn, mret, conns, usedConns, rpcs, mcalls,
                 meters, emitErrs, reverseProxy, iwriter, hpc, hreq, hrest,
                 hreadAll, hpassed, hres, hcalls, serveErr, errPc, errRet,
                 spc, upstreamClosed, hcut, waitErr, sigChan, toStop>>

\* --------------------------------------------------------------- GetStats
\* The handler loads each counter and changes nothing.
GetStats ==
  [traces_observed |-> stats.tracesObserved,
   metrics_observed |-> stats.metricsObserved,
   logs_observed |-> stats.logsObserved,
   bytes_observed |-> stats.bytesObserved,
   active_readers |-> stats.activeReaders,
   active_writers |-> stats.activeWriters]

\* --------------------------------------------------------- broadcastLoop
\* A queue that hands out the newest event first.
TrySendNewestFirst(ch, ev) == IF Len(ch) < StreamCap THEN <<ev>> \o ch ELSE ch

\* A send that is repeated while the queue has room.
TrySendTwice(ch, ev) ==
  IF Len(ch) + 2 <= StreamCap THEN ch \o <<ev, ev>>
  ELSE IF Len(ch) < StreamCap THEN Append(ch, ev) ELSE ch

\* select { case ch <- event: default: }
TrySend(ch, ev) == IF Len(ch) < StreamCap THEN Append(ch, ev) ELSE ch

\* A loop that gives up on the event as soon as one queue is full.
FanoutUnlessAnyFull(chs, set, ev) ==
  IF \E c \in set : Len(chs[c]) >= StreamCap
    THEN chs
    ELSE [c \in Consumers |-> IF c \in set THEN Append(chs[c], ev) ELSE chs[c]]

\* A loop that stops after the first consumer that took the event.
FanoutFirstTaker(chs, set, ev) ==
  LET takers == {c \in set : Len(chs[c]) < StreamCap} IN
    IF takers = {} THEN chs
    ELSE LET t == CHOOSE c \in takers : TRUE IN
           [chs EXCEPT ![t] = Append(@, ev)]

\* for _, ch := range s.streams { ... }
Fanout(chs, set, ev) ==
  [c \in Consumers |-> IF c \in set THEN TrySend(chs[c], ev) ELSE chs[c]]

\* for event := range s.broadcast: the receive.
LoopRecv ==
  /\ Alive /\ loopPc = "recv" /\ broadcast # <<>>
  /\ cur' = Head(broadcast)
  /\ broadcast' = Tail(broadcast)
  /\ loopPc' = "dist"
  /\ UNCHANGED <<listening, grpcSet, sockFile, broadcastClosed, streams,
                 streamsNil, streamCh, chClosed, closeOnce, stats, startPc,
                 cpc, ppc, pev, kpc, panicked, emitted, accepted, delivered,
                 regMark, missed, closeRuns, pathEntry, bound, dpc, xpc,
                 polls, spawns, cli, rpc, toStart, fe, feBound, feServe,
                 upstreamConn, startCalls, epc, ereq, client, eret, calls,
                 inspected, emitterGot, upstreamGot, mpc, mkind, eclient,
                 econn, mconn, mret, conns, usedConns, rpcs, mcalls, meters,
                 emitErrs, reverseProxy, iwriter, hpc, hreq, hrest, hreadAll,
                 hpassed, hres, hcalls, serveErr, errPc, errRet, spc,
                 upstreamClosed, hcut, waitErr, sigChan, toStop, errCtx>>

\* The range ends once the channel is closed and drained.
LoopExit ==
  /\ Alive /\ loopPc = "recv" /\ broadcast = <<>> /\ broadcastClosed
  /\ loopPc' = "exited"
  /\ UNCHANGED <<listening, grpcSet, sockFile, broadcast, broadcastClosed,
                 streams, streamsNil, streamCh, chClosed, closeOnce, stats,
                 startPc, cur, cpc, ppc, pev, kpc, panicked, emitted,
                 accepted, delivered, regMark, missed, closeRuns, pathEntry,
                 bound, dpc, xpc, polls, spawns, cli, rpc, toStart, fe,
                 feBound, feServe, upstreamConn, startCalls, epc, ereq,
                 client, eret, calls, inspected, emitterGot, upstreamGot,
                 mpc, mkind, eclient, econn, mconn, mret, conns, usedConns,
                 rpcs, mcalls, meters, emitErrs, reverseProxy, iwriter, hpc,
                 hreq, hrest, hreadAll, hpassed, hres, hcalls, serveErr,
                 errPc, errRet, spc, upstreamClosed, hcut, waitErr, sigChan,
                 toStop, errCtx>>

\* A loop body whose sends wait for room in every registered queue.
LoopDistributeBlocking ==
  /\ Alive /\ loopPc = "dist"
  /\ \A c \in streams : Len(streamCh[c]) < StreamCap /\ ~chClosed[c]
  /\ streamCh' = Fanout(streamCh, streams, cur)
  /\ cur' = NoEvent
  /\ loopPc' = "recv"
  /\ UNCHANGED <<listening, grpcSet, sockFile, broadcast, broadcastClosed,
                 streams, streamsNil, chClosed, closeOnce, stats, startPc,
                 cpc, ppc, pev, kpc, panicked, emitted, accepted, delivered,
                 regMark, missed, closeRuns, pathEntry, bound, dpc, xpc,
                 polls, spawns, cli, rpc, toStart, fe, feBound, feServe,
                 upstreamConn, startCalls, epc, ereq, client, eret, calls,
                 inspected, emitterGot, upstreamGot, mpc, mkind, eclient,
                 econn, mconn, mret, conns, usedConns, rpcs, mcalls, meters,
                 emitErrs, reverseProxy, iwriter, hpc, hreq, hrest, hreadAll,
                 hpassed, hres, hcalls, serveErr, errPc, errRet, spc,
                 upstreamClosed, hcut, waitErr, sigChan, toStop, errCtx>>

\* The body of the loop, under s.mu.RLock.
LoopDistribute ==
  /\ Alive /\ loopPc = "dist"
  /\ IF \E c \in streams : chClosed[c]
       THEN /\ panicked' = "send on closed channel"
            /\ UNCHANGED <<streamCh, missed, cur, loopPc>>
       ELSE /\ streamCh' = Fanout(streamCh, streams, cur)
            /\ missed' = [c \in Consumers |->
                 missed[c] \/ (c \in streams /\ Len(streamCh[c]) >= StreamCap)]
            /\ cur' = NoEvent
            /\ loopPc' = "recv"
            /\ UNCHANGED panicked
  /\ UNCHANGED <<listening, grpcSet, sockFile, broadcast, broadcastClosed,
                 streams, streamsNil, chClosed, closeOnce, stats, startPc,
                 cpc, ppc, pev, kpc, emitted, accepted, delivered, regMark,
                 closeRuns, pathEntry, bound, dpc, xpc, polls, spawns, cli,
                 rpc, toStart, fe, feBound, feServe, upstreamConn,
                 startCalls, epc, ereq, client, eret, calls, inspected,
                 emitterGot, upstreamGot, mpc, mkind, eclient, econn, mconn,
                 mret, conns, usedConns, rpcs, mcalls, meters, emitErrs,
                 reverseProxy, iwriter, hpc, hreq, hrest, hreadAll, hpassed,
                 hres, hcalls, serveErr, errPc, errRet, spc, upstreamClosed,
                 hcut, waitErr, sigChan, toStop, errCtx>>

\* ---------------------------------------------------------------- Stream
\* The gRPC server hands a Stream RPC to the handler, which makes streamCh and
\* registers: Lock; s.streams[stream] = streamCh; activeReaders.Store; Unlock.
StreamRegister(c) ==
  /\ Alive /\ listening /\ cpc[c] = "idle"
  /\ IF streamsNil
       THEN /\ panicked' = "assignment to entry in nil map"
            /\ UNCHANGED <<streams, stats, cpc, regMark>>
       ELSE /\ streams' = streams \cup {c}
            /\ stats' = [stats EXCEPT !.activeReaders = Cardinality(streams \cup {c})]
            /\ cpc' = [cpc EXCEPT ![c] = "loop"]
            /\ regMark' = [regMark EXCEPT ![c] = LastAcceptedId]
            /\ UNCHANGED panicked
  /\ UNCHANGED <<listening, grpcSet, sockFile, broadcast, broadcastClosed,
                 streamsNil, streamCh, chClosed, closeOnce, startPc, loopPc,
                 cur, ppc, pev, kpc, emitted, accepted, delivered, missed,
                 closeRuns, pathEntry, bound, dpc, xpc, polls, spawns, cli,
                 rpc, toStart, fe, feBound, feServe, upstreamConn,
                 startCalls, epc, ereq, client, eret, calls, inspected,
                 emitterGot, upstreamGot, mpc, mkind, eclient, econn, mconn,
                 mret, conns, usedConns, rpcs, mcalls, meters, emitErrs,
                 reverseProxy, iwriter, hpc, hreq, hrest, hreadAll, hpassed,
                 hres, hcalls, serveErr, errPc, errRet, spc, upstreamClosed,
                 hcut, waitErr, sigChan, toStop, errCtx>>

\* case event, ok := <-streamCh with ok: stream.Send(event) succeeds, or fails
\* and the handler returns the error.
StreamSend(c, sendOk) ==
  /\ Alive /\ cpc[c] = "loop" /\ streamCh[c] # <<>>
  /\ streamCh' = [streamCh EXCEPT ![c] = Tail(@)]
  /\ IF sendOk
       THEN /\ delivered' = [delivered EXCEPT ![c] = Append(@, Head(streamCh[c]))]
            /\ UNCHANGED cpc
       ELSE /\ cpc' = [cpc EXCEPT ![c] = "cleanup"]
            /\ UNCHANGED delivered
  /\ UNCHANGED <<listening, grpcSet, sockFile, broadcast, broadcastClosed,
                 streams, streamsNil, chClosed, closeOnce, stats, startPc,
                 loopPc, cur, ppc, pev, kpc, panicked, emitted, accepted,
                 regMark, missed, closeRuns, pathEntry, bound, dpc, xpc,
                 polls, spawns, cli, rpc, toStart, fe, feBound, feServe,
                 upstreamConn, startCalls, epc, ereq, client, eret, calls,
                 inspected, emitterGot, upstreamGot, mpc, mkind, eclient,
                 econn, mconn, mret, conns, usedConns, rpcs, mcalls, meters,
                 emitErrs, reverseProxy, iwriter, hpc, hreq, hrest, hreadAll,
                 hpassed, hres, hcalls, serveErr, errPc, errRet, spc,
                 upstreamClosed, hcut, waitErr, sigChan, toStop, errCtx>>

\* The handler returns from its loop:
\*   case err := <-errCh   the client ended the stream (stream.Recv gave
\*                         io.EOF or an error, the reading goroutine put it on
\*                         errCh), which a client may do at any time;
\*   case _, ok := <-streamCh with !ok   the channel is closed and drained.
StreamReturn(c) ==
  /\ Alive /\ cpc[c] = "loop"
  /\ \E case \in {"errCh", "closed"} :
       case = "closed" => (streamCh[c] = <<>> /\ chClosed[c])
  /\ cpc' = [cpc EXCEPT ![c] = "cleanup"]
  /\ UNCHANGED <<listening, grpcSet, sockFile, broadcast, broadcastClosed,
                 streams, streamsNil, streamCh, chClosed, closeOnce, stats,
                 startPc, loopPc, cur, ppc, pev, kpc, panicked, emitted,
                 accepted, delivered, regMark, missed, closeRuns, pathEntry,
                 bound, dpc, xpc, polls, spawns, cli, rpc, toStart, fe,
                 feBound, feServe, upstreamConn, startCalls, epc, ereq,
                 client, eret, calls, inspected, emitterGot, upstreamGot,
                 mpc, mkind, eclient, econn, mconn, mret, conns, usedConns,
                 rpcs, mcalls, meters, emitErrs, reverseProxy, iwriter, hpc,
                 hreq, hrest, hreadAll, hpassed, hres, hcalls, serveErr,
                 errPc, errRet, spc, upstreamClosed, hcut, waitErr, sigChan,
                 toStop, errCtx>>

\* A cleanup that forgets the delete.
StreamDeregisterKeepsEntry(c) ==
  /\ Alive /\ cpc[c] = "cleanup"
  /\ cpc' = [cpc EXCEPT ![c] = "closech"]
  /\ UNCHANGED <<listening, grpcSet, sockFile, broadcast, broadcastClosed,
                 streams, streamsNil, streamCh, chClosed, closeOnce, stats,
                 startPc, loopPc, cur, ppc, pev, kpc, panicked, emitted,
                 accepted, delivered, regMark, missed, closeRuns, pathEntry,
                 bound, dpc, xpc, polls, spawns, cli, rpc, toStart, fe,
                 feBound, feServe, upstreamConn, startCalls, epc, ereq,
                 client, eret, calls, inspected, emitterGot, upstreamGot,
                 mpc, mkind, eclient, econn, mconn, mret, conns, usedConns,
                 rpcs, mcalls, meters, emitErrs, reverseProxy, iwriter, hpc,
                 hreq, hrest, hreadAll, hpassed, hres, hcalls, serveErr,
                 errPc, errRet, spc, upstreamClosed, hcut, waitErr, sigChan,
                 toStop, errCtx>>

\* A cleanup that deletes the entry and leaves the stat as it was.
StreamDeregisterStaleCount(c) ==
  /\ Alive /\ cpc[c] = "cleanup"
  /\ streams' = streams \ {c}
  /\ cpc' = [cpc EXCEPT ![c] = "closech"]
  /\ UNCHANGED <<listening, grpcSet, sockFile, broadcast, broadcastClosed,
                 streamsNil, streamCh, chClosed, closeOnce, stats, startPc,
                 loopPc, cur, ppc, pev, kpc, panicked, emitted, accepted,
                 delivered, regMark, missed, closeRuns, pathEntry, bound,
                 dpc, xpc, polls, spawns, cli, rpc, toStart, fe, feBound,
                 feServe, upstreamConn, startCalls, epc, ereq, client, eret,
                 calls, inspected, emitterGot, upstreamGot, mpc, mkind,
                 eclient, econn, mconn, mret, conns, usedConns, rpcs, mcalls,
                 meters, emitErrs, reverseProxy, iwriter, hpc, hreq, hrest,
                 hreadAll, hpassed, hres, hcalls, serveErr, errPc, errRet,
                 spc, upstreamClosed, hcut, waitErr, sigChan, toStop, errCtx>>

\* deferred: Lock; delete(s.streams, stream); activeReaders.Store(len); Unlock
StreamDeregister(c) ==
  /\ Alive /\ cpc[c] = "cleanup"
  /\ streams' = streams \ {c}
  /\ stats' = [stats EXCEPT !.activeReaders = Cardinality(streams \ {c})]
  /\ cpc' = [cpc EXCEPT ![c] = "closech"]
  /\ UNCHANGED <<listening, grpcSet, sockFile, broadcast, broadcastClosed,
                 streamsNil, streamCh, chClosed, closeOnce, startPc, loopPc,
                 cur, ppc, pev, kpc, panicked, emitted, accepted, delivered,
                 regMark, missed, closeRuns, pathEntry, bound, dpc, xpc,
                 polls, spawns, cli, rpc, toStart, fe, feBound, feServe,
                 upstreamConn, startCalls, epc, ereq, client, eret, calls,
                 inspected, emitterGot, upstreamGot, mpc, mkind, eclient,
                 econn, mconn, mret, conns, usedConns, rpcs, mcalls, meters,
                 emitErrs, reverseProxy, iwriter, hpc, hreq, hrest, hreadAll,
                 hpassed, hres, hcalls, serveErr, errPc, errRet, spc,
                 upstreamClosed, hcut, waitErr, sigChan, toStop, errCtx>>

\* deferred: close(streamCh)
StreamCloseCh(c) ==
  /\ Alive /\ cpc[c] = "closech"
  /\ IF chClosed[c]
       THEN /\ panicked' = "close of closed channel"
            /\ UNCHANGED <<chClosed, cpc>>
       ELSE /\ chClosed' = [chClosed EXCEPT ![c] = TRUE]
            /\ cpc' = [cpc EXCEPT ![c] = "done"]
            /\ UNCHANGED panicked
  /\ UNCHANGED <<listening, grpcSet, sockFile, broadcast, broadcastClosed,
                 streams, streamsNil, streamCh, closeOnce, stats, startPc,
                 loopPc, cur, ppc, pev, kpc, emitted, accepted, delivered,
                 regMark, missed, closeRuns, pathEntry, bound, dpc, xpc,
                 polls, spawns, cli, rpc, toStart, fe, feBound, feServe,
                 upstreamConn, startCalls, epc, ereq, client, eret, calls,
                 inspected, emitterGot, upstreamGot, mpc, mkind, eclient,
                 econn, mconn, mret, conns, usedConns, rpcs, mcalls, meters,
                 emitErrs, reverseProxy, iwriter, hpc, hreq, hrest, hreadAll,
                 hpassed, hres, hcalls, serveErr, errPc, errRet, spc,
                 upstreamClosed, hcut, waitErr, sigChan, toStop, errCtx>>

\* ----------------------------------------------------------------- Close
\* Close without the guard: every caller runs f.
OnceEnterUnguarded(once) == "run"

\* s.closeOnce.Do(f): the first caller runs f, a caller arriving while f runs
\* waits for it, a caller arriving later returns at once.
OnceEnter(once) ==
  CASE once = "fresh" -> "run"
    [] once = "running" -> "wait"
    [] OTHER -> "skip"

CloseCall(k) ==
  /\ Alive /\ kpc[k] \in {"idle", "done"}
  /\ startPc \in {"started", "failed"}
  /\ LET how == OnceEnter(closeOnce) IN
       /\ kpc' = [kpc EXCEPT ![k] =
             CASE how = "run" -> IF grpcSet THEN "gstop" ELSE "closeb"
               [] how = "wait" -> "wait"
               [] OTHER -> "done"]
       /\ closeOnce' = IF how = "run" THEN "running" ELSE closeOnce
       /\ closeRuns' = IF how = "run" THEN closeRuns + 1 ELSE closeRuns
  /\ UNCHANGED <<listening, grpcSet, sockFile, broadcast, broadcastClosed,
                 streams, streamsNil, streamCh, chClosed, stats, startPc,
                 loopPc, cur, cpc, ppc, pev, panicked, emitted, accepted,
                 delivered, regMark, missed, pathEntry, bound, dpc, xpc,
                 polls, spawns, cli, rpc, toStart, fe, feBound, feServe,
                 upstreamConn, startCalls, epc, ereq, client, eret, calls,
                 inspected, emitterGot, upstreamGot, mpc, mkind, eclient,
                 econn, mconn, mret, conns, usedConns, rpcs, mcalls, meters,
                 emitErrs, reverseProxy, iwriter, hpc, hreq, hrest, hreadAll,
                 hpassed, hres, hcalls, serveErr, errPc, errRet, spc,
                 upstreamClosed, hcut, waitErr, sigChan, toStop, errCtx>>

\* A stop that waits for the pending RPCs and still accepts new ones.
CloseStopAcceptingStillListens(k) ==
  /\ Alive /\ kpc[k] = "gstop"
  /\ kpc' = [kpc EXCEPT ![k] = "drain"]
  /\ UNCHANGED <<listening, grpcSet, sockFile, broadcast, broadcastClosed,
                 streams, streamsNil, streamCh, chClosed, closeOnce, stats,
                 startPc, loopPc, cur, cpc, ppc, pev, panicked, emitted,
                 accepted, delivered, regMark, missed, closeRuns, pathEntry,
                 bound, dpc, xpc, polls, spawns, cli, rpc, toStart, fe,
                 feBound, feServe, upstreamConn, startCalls, epc, ereq,
                 client, eret, calls, inspected, emitterGot, upstreamGot,
                 mpc, mkind, eclient, econn, mconn, mret, conns, usedConns,
                 rpcs, mcalls, meters, emitErrs, reverseProxy, iwriter, hpc,
                 hreq, hrest, hreadAll, hpassed, hres, hcalls, serveErr,
                 errPc, errRet, spc, upstreamClosed, hcut, waitErr, sigChan,
                 toStop, errCtx>>

\* s.grpc.GracefulStop(), first half: the listener is closed and no new RPC is
\* accepted.
CloseStopAccepting(k) ==
  /\ Alive /\ kpc[k] = "gstop"
  /\ listening' = FALSE
  /\ kpc' = [kpc EXCEPT ![k] = "drain"]
  /\ UNCHANGED <<grpcSet, sockFile, broadcast, broadcastClosed, streams,
                 streamsNil, streamCh, chClosed, closeOnce, stats, startPc,
                 loopPc, cur, cpc, ppc, pev, panicked, emitted, accepted,
                 delivered, regMark, missed, closeRuns, pathEntry, bound,
                 dpc, xpc, polls, spawns, cli, rpc, toStart, fe, feBound,
                 feServe, upstreamConn, startCalls, epc, ereq, client, eret,
                 calls, inspected, emitterGot, upstreamGot, mpc, mkind,
                 eclient, econn, mconn, mret, conns, usedConns, rpcs, mcalls,
                 meters, emitErrs, reverseProxy, iwriter, hpc, hreq, hrest,
                 hreadAll, hpassed, hres, hcalls, serveErr, errPc, errRet,
                 spc, upstreamClosed, hcut, waitErr, sigChan, toStop, errCtx>>

\* A stop that does not wait for the handlers.
StopWithoutDrain == TRUE

\* s.grpc.GracefulStop(), second half: it returns once every pending RPC has
\* finished, that is once every handler has returned.
GracefulStopDone == StreamsInFlight = {} /\ EmitsInFlight = {}

\* A Close that goes on while handlers are still running.
CloseDrainedAtOnce(k) ==
  /\ Alive /\ kpc[k] = "drain"
  /\ kpc' = [kpc EXCEPT ![k] = "closeb"]
  /\ UNCHANGED <<listening, grpcSet, sockFile, broadcast, broadcastClosed,
                 streams, streamsNil, streamCh, chClosed, closeOnce, stats,
                 startPc, loopPc, cur, cpc, ppc, pev, panicked, emitted,
                 accepted, delivered, regMark, missed, closeRuns, pathEntry,
                 bound, dpc, xpc, polls, spawns, cli, rpc, toStart, fe,
                 feBound, feServe, upstreamConn, startCalls, epc, ereq,
                 client, eret, calls, inspected, emitterGot, upstreamGot,
                 mpc, mkind, eclient, econn, mconn, mret, conns, usedConns,
                 rpcs, mcalls, meters, emitErrs, reverseProxy, iwriter, hpc,
                 hreq, hrest, hreadAll, hpassed, hres, hcalls, serveErr,
                 errPc, errRet, spc, upstreamClosed, hcut, waitErr, sigChan,
                 toStop, errCtx>>

CloseDrained(k) ==
  /\ Alive /\ kpc[k] = "drain"
  /\ GracefulStopDone
  /\ kpc' = [kpc EXCEPT ![k] = "closeb"]
  /\ UNCHANGED <<listening, grpcSet, sockFile, broadcast, broadcastClosed,
                 streams, streamsNil, streamCh, chClosed, closeOnce, stats,
                 startPc, loopPc, cur, cpc, ppc, pev, panicked, emitted,
                 accepted, delivered, regMark, missed, closeRuns, pathEntry,
                 bound, dpc, xpc, polls, spawns, cli, rpc, toStart, fe,
                 feBound, feServe, upstreamConn, startCalls, epc, ereq,
                 client, eret, calls, inspected, emitterGot, upstreamGot,
                 mpc, mkind, eclient, econn, mconn, mret, conns, usedConns,
                 rpcs, mcalls, meters, emitErrs, reverseProxy, iwriter, hpc,
                 hreq, hrest, hreadAll, hpassed, hres, hcalls, serveErr,
                 errPc, errRet, spc, upstreamClosed, hcut, waitErr, sigChan,
                 toStop, errCtx>>

\* close(s.broadcast)
CloseBroadcast(k) ==
  /\ Alive /\ kpc[k] = "closeb"
  /\ IF broadcastClosed
       THEN /\ panicked' = "close of closed channel"
            /\ UNCHANGED <<broadcastClosed, kpc>>
       ELSE /\ broadcastClosed' = TRUE
            /\ kpc' = [kpc EXCEPT ![k] = "closestreams"]
            /\ UNCHANGED panicked
  /\ UNCHANGED <<listening, grpcSet, sockFile, broadcast, streams,
                 streamsNil, streamCh, chClosed, closeOnce, stats, startPc,
                 loopPc, cur, cpc, ppc, pev, emitted, accepted, delivered,
                 regMark, missed, closeRuns, pathEntry, bound, dpc, xpc,
                 polls, spawns, cli, rpc, toStart, fe, feBound, feServe,
                 upstreamConn, startCalls, epc, ereq, client, eret, calls,
                 inspected, emitterGot, upstreamGot, mpc, mkind, eclient,
                 econn, mconn, mret, conns, usedConns, rpcs, mcalls, meters,
                 emitErrs, reverseProxy, iwriter, hpc, hreq, hrest, hreadAll,
                 hpassed, hres, hcalls, serveErr, errPc, errRet, spc,
                 upstreamClosed, hcut, waitErr, sigChan, toStop, errCtx>>

\* s.mu.Lock(); for _, ch := range s.streams { close(ch) }; s.streams = nil
CloseStreams(k) ==
  /\ Alive /\ kpc[k] = "closestreams"
  /\ IF \E c \in streams : chClosed[c]
       THEN /\ panicked' = "close of closed channel"
            /\ UNCHANGED <<chClosed, streams, streamsNil, kpc>>
       ELSE /\ chClosed' = [c \in Consumers |-> chClosed[c] \/ c \in streams]
            /\ streams' = {}
            /\ streamsNil' = TRUE
            /\ kpc' = [kpc EXCEPT ![k] = "remove"]
            /\ UNCHANGED panicked
  /\ UNCHANGED <<listening, grpcSet, sockFile, broadcast, broadcastClosed,
                 streamCh, closeOnce, stats, startPc, loopPc, cur, cpc, ppc,
                 pev, emitted, accepted, delivered, regMark, missed,
                 closeRuns, pathEntry, bound, dpc, xpc, polls, spawns, cli,
                 rpc, toStart, fe, feBound, feServe, upstreamConn,
                 startCalls, epc, ereq, client, eret, calls, inspected,
                 emitterGot, upstreamGot, mpc, mkind, eclient, econn, mconn,
                 mret, conns, usedConns, rpcs, mcalls, meters, emitErrs,
                 reverseProxy, iwriter, hpc, hreq, hrest, hreadAll, hpassed,
                 hres, hcalls, serveErr, errPc, errRet, spc, upstreamClosed,
                 hcut, waitErr, sigChan, toStop, errCtx>>

\* _ = os.Remove(s.path); f returns and Close returns nil.
CloseRemove(k) ==
  /\ Alive /\ kpc[k] = "remove"
  /\ sockFile' = "none"
  /\ closeOnce' = "done"
  /\ kpc' = [kpc EXCEPT ![k] = "done"]
  /\ UNCHANGED <<listening, grpcSet, broadcast, broadcastClosed, streams,
                 streamsNil, streamCh, chClosed, stats, startPc, loopPc, cur,
                 cpc, ppc, pev, panicked, emitted, accepted, delivered,
                 regMark, missed, closeRuns, pathEntry, bound, dpc, xpc,
                 polls, spawns, cli, rpc, toStart, fe, feBound, feServe,
                 upstreamConn, startCalls, epc, ereq, client, eret, calls,
                 inspected, emitterGot, upstreamGot, mpc, mkind, eclient,
                 econn, mconn, mret, conns, usedConns, rpcs, mcalls, meters,
                 emitErrs, reverseProxy, iwriter, hpc, hreq, hrest, hreadAll,
                 hpassed, hres, hcalls, serveErr, errPc, errRet, spc,
                 upstreamClosed, hcut, waitErr, sigChan, toStop, errCtx>>

\* A caller that waited in closeOnce.Do returns once f has returned.
CloseWaited(k) ==
  /\ Alive /\ kpc[k] = "wait" /\ closeOnce = "done"
  /\ kpc' = [kpc EXCEPT ![k] = "done"]
  /\ UNCHANGED <<listening, grpcSet, sockFile, broadcast, broadcastClosed,
                 streams, streamsNil, streamCh, chClosed, closeOnce, stats,
                 startPc, loopPc, cur, cpc, ppc, pev, panicked, emitted,
                 accepted, delivered, regMark, missed, closeRuns, pathEntry,
                 bound, dpc, xpc, polls, spawns, cli, rpc, toStart, fe,
                 feBound, feServe, upstreamConn, startCalls, epc, ereq,
                 client, eret, calls, inspected, emitterGot, upstreamGot,
                 mpc, mkind, eclient, econn, mconn, mret, conns, usedConns,
                 rpcs, mcalls, meters, emitErrs, reverseProxy, iwriter, hpc,
                 hreq, hrest, hreadAll, hpassed, hres, hcalls, serveErr,
                 errPc, errRet, spc, upstreamClosed, hcut, waitErr, sigChan,
                 toStop, errCtx>>

\* ------------------------------------------- the daemon lifecycle
\* net.DialTimeout("unix", path, ...) succeeds when the entry at the path is
\* the socket of an open listener.
CanDial == pathEntry \in bound

InitLife ==
  /\ pathEntry \in {"absent", "stale"}
  /\ bound = {}
  /\ dpc = [d \in Proxies |-> "none"]
  /\ xpc = [x \in Proxies |-> "idle"]
  /\ polls = [x \in Proxies |-> 0]
  /\ spawns = [x \in Proxies |-> 0]

\* A first dial whose result is not looked at.
EnsureProbeAlwaysSpawns(x) ==
  /\ xpc[x] = "idle"
  /\ xpc' = [xpc EXCEPT ![x] = "spawn"]
  /\ UNCHANGED <<listening, grpcSet, sockFile, broadcast, broadcastClosed,
                 streams, streamsNil, streamCh, chClosed, closeOnce, stats,
                 startPc, loopPc, cur, cpc, ppc, pev, kpc, panicked, emitted,
                 accepted, delivered, regMark, missed, closeRuns, pathEntry,
                 bound, dpc, polls, spawns, cli, rpc, toStart, fe, feBound,
                 feServe, upstreamConn, startCalls, epc, ereq, client, eret,
                 calls, inspected, emitterGot, upstreamGot, mpc, mkind,
                 eclient, econn, mconn, mret, conns, usedConns, rpcs, mcalls,
                 meters, emitErrs, reverseProxy, iwriter, hpc, hreq, hrest,
                 hreadAll, hpassed, hres, hcalls, serveErr, errPc, errRet,
                 spc, upstreamClosed, hcut, waitErr, sigChan, toStop, errCtx>>

\* EnsureServerRunning: the first dial.  On success it returns nil; on any
\* error it goes on to spawn.
EnsureProbe(x) ==
  /\ xpc[x] = "idle"
  /\ xpc' = [xpc EXCEPT ![x] = IF CanDial THEN "ok" ELSE "spawn"]
  /\ UNCHANGED <<listening, grpcSet, sockFile, broadcast, broadcastClosed,
                 streams, streamsNil, streamCh, chClosed, closeOnce, stats,
                 startPc, loopPc, cur, cpc, ppc, pev, kpc, panicked, emitted,
                 accepted, delivered, regMark, missed, closeRuns, pathEntry,
                 bound, dpc, polls, spawns, cli, rpc, toStart, fe, feBound,
                 feServe, upstreamConn, startCalls, epc, ereq, client, eret,
                 calls, inspected, emitterGot, upstreamGot, mpc, mkind,
                 eclient, econn, mconn, mret, conns, usedConns, rpcs, mcalls,
                 meters, emitErrs, reverseProxy, iwriter, hpc, hreq, hrest,
                 hreadAll, hpassed, hres, hcalls, serveErr, errPc, errRet,
                 spc, upstreamClosed, hcut, waitErr, sigChan, toStop, errCtx>>

\* exec.Command(os.Args[0], "--daemon", path); cmd.Start() succeeds and the
\* child begins RunDaemon, or fails and the error is returned.
EnsureSpawn(x, started) ==
  /\ xpc[x] = "spawn"
  /\ IF started
       THEN /\ xpc' = [xpc EXCEPT ![x] = "poll"]
            /\ dpc' = [dpc EXCEPT ![x] = "start"]
            /\ spawns' = [spawns EXCEPT ![x] = @ + 1]
       ELSE /\ xpc' = [xpc EXCEPT ![x] = "err_spawn"]
            /\ UNCHANGED <<dpc, spawns>>
  /\ UNCHANGED <<listening, grpcSet, sockFile, broadcast, broadcastClosed,
                 streams, streamsNil, streamCh, chClosed, closeOnce, stats,
                 startPc, loopPc, cur, cpc, ppc, pev, kpc, panicked, emitted,
                 accepted, delivered, regMark, missed, closeRuns, pathEntry,
                 bound, polls, cli, rpc, toStart, fe, feBound, feServe,
                 upstreamConn, startCalls, epc, ereq, client, eret, calls,
                 inspected, emitterGot, upstreamGot, mpc, mkind, eclient,
                 econn, mconn, mret, conns, usedConns, rpcs, mcalls, meters,
                 emitErrs, reverseProxy, iwriter, hpc, hreq, hrest, hreadAll,
                 hpassed, hres, hcalls, serveErr, errPc, errRet, spc,
                 upstreamClosed, hcut, waitErr, sigChan, toStop, errCtx>>

\* A round that reports success without looking at the dial's result.
EnsurePollOptimistic(x) ==
  /\ xpc[x] = "poll" /\ polls[x] < MaxPolls
  /\ polls' = [polls EXCEPT ![x] = @ + 1]
  /\ xpc' = [xpc EXCEPT ![x] = "ok"]
  /\ UNCHANGED <<listening, grpcSet, sockFile, broadcast, broadcastClosed,
                 streams, streamsNil, streamCh, chClosed, closeOnce, stats,
                 startPc, loopPc, cur, cpc, ppc, pev, kpc, panicked, emitted,
                 accepted, delivered, regMark, missed, closeRuns, pathEntry,
                 bound, dpc, spawns, cli, rpc, toStart, fe, feBound, feServe,
                 upstreamConn, startCalls, epc, ereq, client, eret, calls,
                 inspected, emitterGot, upstreamGot, mpc, mkind, eclient,
                 econn, mconn, mret, conns, usedConns, rpcs, mcalls, meters,
                 emitErrs, reverseProxy, iwriter, hpc, hreq, hrest, hreadAll,
                 hpassed, hres, hcalls, serveErr, errPc, errRet, spc,
                 upstreamClosed, hcut, waitErr, sigChan, toStop, errCtx>>

\* One round of for range 50: sleep, dial, return nil on success.  cmd.Err is
\* the error of looking the executable up, nil after cmd.Start succeeded, so
\* the test of it never returns: a child that has exited changes nothing.
EnsurePoll(x) ==
  /\ xpc[x] = "poll" /\ polls[x] < MaxPolls
  /\ polls' = [polls EXCEPT ![x] = @ + 1]
  /\ xpc' = [xpc EXCEPT ![x] = IF CanDial THEN "ok" ELSE "poll"]
  /\ UNCHANGED <<listening, grpcSet, sockFile, broadcast, broadcastClosed,
                 streams, streamsNil, streamCh, chClosed, closeOnce, stats,
                 startPc, loopPc, cur, cpc, ppc, pev, kpc, panicked, emitted,
                 accepted, delivered, regMark, missed, closeRuns, pathEntry,
                 bound, dpc, spawns, cli, rpc, toStart, fe, feBound, feServe,
                 upstreamConn, startCalls, epc, ereq, client, eret, calls,
                 inspected, emitterGot, upstreamGot, mpc, mkind, eclient,
                 econn, mconn, mret, conns, usedConns, rpcs, mcalls, meters,
                 emitErrs, reverseProxy, iwriter, hpc, hreq, hrest, hreadAll,
                 hpassed, hres, hcalls, serveErr, errPc, errRet, spc,
                 upstreamClosed, hcut, waitErr, sigChan, toStop, errCtx>>

\* The loop ran out: "gRPC server did not start in time".
EnsureTimeout(x) ==
  /\ xpc[x] = "poll" /\ polls[x] = MaxPolls
  /\ xpc' = [xpc EXCEPT ![x] = "err_timeout"]
  /\ UNCHANGED <<listening, grpcSet, sockFile, broadcast, broadcastClosed,
                 streams, streamsNil, streamCh, chClosed, closeOnce, stats,
                 startPc, loopPc, cur, cpc, ppc, pev, kpc, panicked, emitted,
                 accepted, delivered, regMark, missed, closeRuns, pathEntry,
                 bound, dpc, polls, spawns, cli, rpc, toStart, fe, feBound,
                 feServe, upstreamConn, startCalls, epc, ereq, client, eret,
                 calls, inspected, emitterGot, upstreamGot, mpc, mkind,
                 eclient, econn, mconn, mret, conns, usedConns, rpcs, mcalls,
                 meters, emitErrs, reverseProxy, iwriter, hpc, hreq, hrest,
                 hreadAll, hpassed, hres, hcalls, serveErr, errPc, errRet,
                 spc, upstreamClosed, hcut, waitErr, sigChan, toStop, errCtx>>

\* RunDaemon -> Start: _ = os.Remove(s.path), whatever the entry is.
DaemonStartRemove(d) ==
  /\ dpc[d] = "start"
  /\ pathEntry' = "absent"
  /\ dpc' = [dpc EXCEPT ![d] = "listen"]
  /\ UNCHANGED <<listening, grpcSet, sockFile, broadcast, broadcastClosed,
                 streams, streamsNil, streamCh, chClosed, closeOnce, stats,
                 startPc, loopPc, cur, cpc, ppc, pev, kpc, panicked, emitted,
                 accepted, delivered, regMark, missed, closeRuns, bound, xpc,
                 polls, spawns, cli, rpc, toStart, fe, feBound, feServe,
                 upstreamConn, startCalls, epc, ereq, client, eret, calls,
                 inspected, emitterGot, upstreamGot, mpc, mkind, eclient,
                 econn, mconn, mret, conns, usedConns, rpcs, mcalls, meters,
                 emitErrs, reverseProxy, iwriter, hpc, hreq, hrest, hreadAll,
                 hpassed, hres, hcalls, serveErr, errPc, errRet, spc,
                 upstreamClosed, hcut, waitErr, sigChan, toStop, errCtx>>

\* RunDaemon that goes on to wait for a signal when Start returned an error.
DaemonStartListenIgnoresError(d) ==
  /\ dpc[d] = "listen"
  /\ IF pathEntry = "absent"
       THEN /\ pathEntry' = d
            /\ bound' = bound \cup {d}
       ELSE UNCHANGED <<pathEntry, bound>>
  /\ dpc' = [dpc EXCEPT ![d] = "serving"]
  /\ UNCHANGED <<listening, grpcSet, sockFile, broadcast, broadcastClosed,
                 streams, streamsNil, streamCh, chClosed, closeOnce, stats,
                 startPc, loopPc, cur, cpc, ppc, pev, kpc, panicked, emitted,
                 accepted, delivered, regMark, missed, closeRuns, xpc, polls,
                 spawns, cli, rpc, toStart, fe, feBound, feServe,
                 upstreamConn, startCalls, epc, ereq, client, eret, calls,
                 inspected, emitterGot, upstreamGot, mpc, mkind, eclient,
                 econn, mconn, mret, conns, usedConns, rpcs, mcalls, meters,
                 emitErrs, reverseProxy, iwriter, hpc, hreq, hrest, hreadAll,
                 hpassed, hres, hcalls, serveErr, errPc, errRet, spc,
                 upstreamClosed, hcut, waitErr, sigChan, toStop, errCtx>>

\* RunDaemon -> Start: net.Listen("unix", s.path) binds when no entry exists at
\* the path and fails (address in use) when one does.
DaemonStartListen(d) ==
  /\ dpc[d] = "listen"
  /\ IF pathEntry = "absent"
       THEN /\ pathEntry' = d
            /\ bound' = bound \cup {d}
            /\ dpc' = [dpc EXCEPT ![d] = "serving"]
       ELSE /\ dpc' = [dpc EXCEPT ![d] = "startfailed"]
            /\ UNCHANGED <<pathEntry, bound>>
  /\ UNCHANGED <<listening, grpcSet, sockFile, broadcast, broadcastClosed,
                 streams, streamsNil, streamCh, chClosed, closeOnce, stats,
                 startPc, loopPc, cur, cpc, ppc, pev, kpc, panicked, emitted,
                 accepted, delivered, regMark, missed, closeRuns, xpc, polls,
                 spawns, cli, rpc, toStart, fe, feBound, feServe,
                 upstreamConn, startCalls, epc, ereq, client, eret, calls,
                 inspected, emitterGot, upstreamGot, mpc, mkind, eclient,
                 econn, mconn, mret, conns, usedConns, rpcs, mcalls, meters,
                 emitErrs, reverseProxy, iwriter, hpc, hreq, hrest, hreadAll,
                 hpassed, hres, hcalls, serveErr, errPc, errRet, spc,
                 upstreamClosed, hcut, waitErr, sigChan, toStop, errCtx>>

\* RunDaemon after a failed Start: server.Close() with s.grpc == nil closes
\* the intake queue and runs os.Remove(s.path); log.Fatalf exits with status 1.
DaemonFailedStartClose(d) ==
  /\ dpc[d] = "startfailed"
  /\ pathEntry' = "absent"
  /\ dpc' = [dpc EXCEPT ![d] = "fatal"]
  /\ UNCHANGED <<listening, grpcSet, sockFile, broadcast, broadcastClosed,
                 streams, streamsNil, streamCh, chClosed, closeOnce, stats,
                 startPc, loopPc, cur, cpc, ppc, pev, kpc, panicked, emitted,
                 accepted, delivered, regMark, missed, closeRuns, bound, xpc,
                 polls, spawns, cli, rpc, toStart, fe, feBound, feServe,
                 upstreamConn, startCalls, epc, ereq, client, eret, calls,
                 inspected, emitterGot, upstreamGot, mpc, mkind, eclient,
                 econn, mconn, mret, conns, usedConns, rpcs, mcalls, meters,
                 emitErrs, reverseProxy, iwriter, hpc, hreq, hrest, hreadAll,
                 hpassed, hres, hcalls, serveErr, errPc, errRet, spc,
                 upstreamClosed, hcut, waitErr, sigChan, toStop, errCtx>>

\* RunDaemon: a signal arrives and server.Close() begins: GracefulStop closes
\* the listener.
DaemonSignal(d) ==
  /\ dpc[d] = "serving"
  /\ bound' = bound \ {d}
  /\ dpc' = [dpc EXCEPT ![d] = "closing"]
  /\ UNCHANGED <<listening, grpcSet, sockFile, broadcast, broadcastClosed,
                 streams, streamsNil, streamCh, chClosed, closeOnce, stats,
                 startPc, loopPc, cur, cpc, ppc, pev, kpc, panicked, emitted,
                 accepted, delivered, regMark, missed, closeRuns, pathEntry,
                 xpc, polls, spawns, cli, rpc, toStart, fe, feBound, feServe,
                 upstreamConn, startCalls, epc, ereq, client, eret, calls,
                 inspected, emitterGot, upstreamGot, mpc, mkind, eclient,
                 econn, mconn, mret, conns, usedConns, rpcs, mcalls, meters,
                 emitErrs, reverseProxy, iwriter, hpc, hreq, hrest, hreadAll,
                 hpassed, hres, hcalls, serveErr, errPc, errRet, spc,
                 upstreamClosed, hcut, waitErr, sigChan, toStop, errCtx>>

\* server.Close() ends with os.Remove(s.path); RunDaemon returns.
DaemonCloseRemove(d) ==
  /\ dpc[d] = "closing"
  /\ pathEntry' = "absent"
  /\ dpc' = [dpc EXCEPT ![d] = "exited"]
  /\ UNCHANGED <<listening, grpcSet, sockFile, broadcast, broadcastClosed,
                 streams, streamsNil, streamCh, chClosed, closeOnce, stats,
                 startPc, loopPc, cur, cpc, ppc, pev, kpc, panicked, emitted,
                 accepted, delivered, regMark, missed, closeRuns, bound, xpc,
                 polls, spawns, cli, rpc, toStart, fe, feBound, feServe,
                 upstreamConn, startCalls, epc, ereq, client, eret, calls,
                 inspected, emitterGot, upstreamGot, mpc, mkind, eclient,
                 econn, mconn, mret, conns, usedConns, rpcs, mcalls, meters,
                 emitErrs, reverseProxy, iwriter, hpc, hreq, hrest, hreadAll,
                 hpassed, hres, hcalls, serveErr, errPc, errRet, spc,
                 upstreamClosed, hcut, waitErr, sigChan, toStop, errCtx>>

LifeNext ==
  \/ \E x \in Proxies : EnsureProbe(x)
  \/ \E x \in Proxies, started \in BOOLEAN : EnsureSpawn(x, started)
  \/ \E x \in Proxies : EnsurePoll(x)
  \/ \E x \in Proxies : EnsureTimeout(x)
  \/ \E d \in Proxies : DaemonStartRemove(d)
  \/ \E d \in Proxies : DaemonStartListen(d)
  \/ \E d \in Proxies : DaemonFailedStartClose(d)
  \/ \E d \in Proxies : DaemonSignal(d)
  \/ \E d \in Proxies : DaemonCloseRemove(d)

\* ------------------------------------------- the socket-backed Emitter
\* e.client is an interface value that connect() writes and that connect()
\* and the emit methods read with no lock: a read that races with the write
\* can see the value nil, whole, or with its type word set and its data word
\* still nil.
HalfSet == -1
NoEmit == "none"
EmitKinds == {"TRACE", "METRIC", "LOG"}

EmitterFresh ==
  /\ mpc = [c \in Callers |-> "idle"]
  /\ mkind = [c \in Callers |-> NoEmit]
  /\ eclient = 0
  /\ econn = 0
  /\ mconn = [c \in Callers |-> 0]
  /\ mret = [c \in Callers |-> NoEmit]
  /\ conns = 0
  /\ usedConns = {}
  /\ rpcs = [c \in Callers |-> 0]
  /\ mcalls = 0

\* A nil pointer dereference in one goroutine ends the process.
EmitterAlive == \A c \in Callers : mret[c] # "panic"

\* EmitTrace / EmitMetric / EmitLog is called.
EmitCall(c, kind) ==
  /\ EmitterAlive /\ mpc[c] = "idle" /\ mcalls < MaxEmitCalls
  /\ mcalls' = mcalls + 1
  /\ mkind' = [mkind EXCEPT ![c] = kind]
  /\ mret' = [mret EXCEPT ![c] = NoEmit]
  /\ rpcs' = [rpcs EXCEPT ![c] = 0]
  /\ mconn' = [mconn EXCEPT ![c] = 0]
  /\ mpc' = [mpc EXCEPT ![c] = "connect"]
  /\ UNCHANGED <<listening, grpcSet, sockFile, broadcast, broadcastClosed,
                 streams, streamsNil, streamCh, chClosed, closeOnce, stats,
                 startPc, loopPc, cur, cpc, ppc, pev, kpc, panicked, emitted,
                 accepted, delivered, regMark, missed, closeRuns, pathEntry,
                 bound, dpc, xpc, polls, spawns, cli, rpc, toStart, fe,
                 feBound, feServe, upstreamConn, startCalls, epc, ereq,
                 client, eret, calls, inspected, emitterGot, upstreamGot,
                 eclient, econn, conns, usedConns, meters, emitErrs,
                 reverseProxy, iwriter, hpc, hreq, hrest, hreadAll, hpassed,
                 hres, hcalls, serveErr, errPc, errRet, spc, upstreamClosed,
                 hcut, waitErr, sigChan, toStop, errCtx>>

\* connect(): if e.client != nil { return nil }
ConnectCheck(c) ==
  /\ EmitterAlive /\ mpc[c] = "connect"
  /\ mpc' = [mpc EXCEPT ![c] = IF eclient # 0 THEN "marshal" ELSE "newclient"]
  /\ UNCHANGED <<listening, grpcSet, sockFile, broadcast, broadcastClosed,
                 streams, streamsNil, streamCh, chClosed, closeOnce, stats,
                 startPc, loopPc, cur, cpc, ppc, pev, kpc, panicked, emitted,
                 accepted, delivered, regMark, missed, closeRuns, pathEntry,
                 bound, dpc, xpc, polls, spawns, cli, rpc, toStart, fe,
                 feBound, feServe, upstreamConn, startCalls, epc, ereq,
                 client, eret, calls, inspected, emitterGot, upstreamGot,
                 mkind, eclient, econn, mconn, mret, conns, usedConns, rpcs,
                 mcalls, meters, emitErrs, reverseProxy, iwriter, hpc, hreq,
                 hrest, hreadAll, hpassed, hres, hcalls, serveErr, errPc,
                 errRet, spc, upstreamClosed, hcut, waitErr, sigChan, toStop,
                 errCtx>>

\* conn, err := grpc.NewClient(...): a new client connection, or the error
\* that connect() wraps and the emit method returns.
ConnectNewClient(c, ok) ==
  /\ EmitterAlive /\ mpc[c] = "newclient"
  /\ IF ok
       THEN /\ conns' = conns + 1
            /\ mconn' = [mconn EXCEPT ![c] = conns + 1]
            /\ mpc' = [mpc EXCEPT ![c] = "assign"]
            /\ UNCHANGED mret
       ELSE /\ mret' = [mret EXCEPT ![c] = "err_connect"]
            /\ mpc' = [mpc EXCEPT ![c] = "idle"]
            /\ UNCHANGED <<conns, mconn>>
  /\ UNCHANGED <<listening, grpcSet, sockFile, broadcast, broadcastClosed,
                 streams, streamsNil, streamCh, chClosed, closeOnce, stats,
                 startPc, loopPc, cur, cpc, ppc, pev, kpc, panicked, emitted,
                 accepted, delivered, regMark, missed, closeRuns, pathEntry,
                 bound, dpc, xpc, polls, spawns, cli, rpc, toStart, fe,
                 feBound, feServe, upstreamConn, startCalls, epc, ereq,
                 client, eret, calls, inspected, emitterGot, upstreamGot,
                 mkind, eclient, econn, usedConns, rpcs, mcalls, meters,
                 emitErrs, reverseProxy, iwriter, hpc, hreq, hrest, hreadAll,
                 hpassed, hres, hcalls, serveErr, errPc, errRet, spc,
                 upstreamClosed, hcut, waitErr, sigChan, toStop, errCtx>>

\* e.conn = conn, and the first word of e.client = New...Client(conn).
ConnectAssignConn(c) ==
  /\ EmitterAlive /\ mpc[c] = "assign"
  /\ econn' = mconn[c]
  /\ eclient' = IF eclient = 0 THEN HalfSet ELSE eclient
  /\ mpc' = [mpc EXCEPT ![c] = "assign2"]
  /\ UNCHANGED <<listening, grpcSet, sockFile, broadcast, broadcastClosed,
                 streams, streamsNil, streamCh, chClosed, closeOnce, stats,
                 startPc, loopPc, cur, cpc, ppc, pev, kpc, panicked, emitted,
                 accepted, delivered, regMark, missed, closeRuns, pathEntry,
                 bound, dpc, xpc, polls, spawns, cli, rpc, toStart, fe,
                 feBound, feServe, upstreamConn, startCalls, epc, ereq,
                 client, eret, calls, inspected, emitterGot, upstreamGot,
                 mkind, mconn, mret, conns, usedConns, rpcs, mcalls, meters,
                 emitErrs, reverseProxy, iwriter, hpc, hreq, hrest, hreadAll,
                 hpassed, hres, hcalls, serveErr, errPc, errRet, spc,
                 upstreamClosed, hcut, waitErr, sigChan, toStop, errCtx>>

\* The second word of e.client: the value is whole; connect() returns nil.
ConnectAssignClient(c) ==
  /\ EmitterAlive /\ mpc[c] = "assign2"
  /\ eclient' = mconn[c]
  /\ mpc' = [mpc EXCEPT ![c] = "marshal"]
  /\ UNCHANGED <<listening, grpcSet, sockFile, broadcast, broadcastClosed,
                 streams, streamsNil, streamCh, chClosed, closeOnce, stats,
                 startPc, loopPc, cur, cpc, ppc, pev, kpc, panicked, emitted,
                 accepted, delivered, regMark, missed, closeRuns, pathEntry,
                 bound, dpc, xpc, polls, spawns, cli, rpc, toStart, fe,
                 feBound, feServe, upstreamConn, startCalls, epc, ereq,
                 client, eret, calls, inspected, emitterGot, upstreamGot,
                 mkind, econn, mconn, mret, conns, usedConns, rpcs, mcalls,
                 meters, emitErrs, reverseProxy, iwriter, hpc, hreq, hrest,
                 hreadAll, hpassed, hres, hcalls, serveErr, errPc, errRet,
                 spc, upstreamClosed, hcut, waitErr, sigChan, toStop, errCtx>>

\* bytes, err := proto.Marshal(data)
EmitMarshal(c, ok) ==
  /\ EmitterAlive /\ mpc[c] = "marshal"
  /\ IF ok
       THEN mpc' = [mpc EXCEPT ![c] = "rpc"] /\ UNCHANGED mret
       ELSE /\ mret' = [mret EXCEPT ![c] = "err_marshal"]
            /\ mpc' = [mpc EXCEPT ![c] = "idle"]
  /\ UNCHANGED <<listening, grpcSet, sockFile, broadcast, broadcastClosed,
                 streams, streamsNil, streamCh, chClosed, closeOnce, stats,
                 startPc, loopPc, cur, cpc, ppc, pev, kpc, panicked, emitted,
                 accepted, delivered, regMark, missed, closeRuns, pathEntry,
                 bound, dpc, xpc, polls, spawns, cli, rpc, toStart, fe,
                 feBound, feServe, upstreamConn, startCalls, epc, ereq,
                 client, eret, calls, inspected, emitterGot, upstreamGot,
                 mkind, eclient, econn, mconn, conns, usedConns, rpcs,
                 mcalls, meters, emitErrs, reverseProxy, iwriter, hpc, hreq,
                 hrest, hreadAll, hpassed, hres, hcalls, serveErr, errPc,
                 errRet, spc, upstreamClosed, hcut, waitErr, sigChan, toStop,
                 errCtx>>

\* _, err = e.client.Emit(context.Background(), event); return err
\* The call goes out on the connection of the client that e.client holds at
\* this read; on a half-set value the method dereferences a nil pointer.
EmitRpc(c, ok) ==
  /\ EmitterAlive /\ mpc[c] = "rpc"
  /\ IF eclient = HalfSet
       THEN /\ ok
            /\ mret' = [mret EXCEPT ![c] = "panic"]
            /\ UNCHANGED <<usedConns, rpcs>>
       ELSE /\ usedConns' = usedConns \cup {eclient}
            /\ rpcs' = [rpcs EXCEPT ![c] = @ + 1]
            /\ mret' = [mret EXCEPT ![c] = IF ok THEN "nil" ELSE "err_rpc"]
  /\ mpc' = [mpc EXCEPT ![c] = "idle"]
  /\ UNCHANGED <<listening, grpcSet, sockFile, broadcast, broadcastClosed,
                 streams, streamsNil, streamCh, chClosed, closeOnce, stats,
                 startPc, loopPc, cur, cpc, ppc, pev, kpc, panicked, emitted,
                 accepted, delivered, regMark, missed, closeRuns, pathEntry,
                 bound, dpc, xpc, polls, spawns, cli, rpc, toStart, fe,
                 feBound, feServe, upstreamConn, startCalls, epc, ereq,
                 client, eret, calls, inspected, emitterGot, upstreamGot,
                 mkind, eclient, econn, mconn, conns, mcalls, meters,
                 emitErrs, reverseProxy, iwriter, hpc, hreq, hrest, hreadAll,
                 hpassed, hres, hcalls, serveErr, errPc, errRet, spc,
                 upstreamClosed, hcut, waitErr, sigChan, toStop, errCtx>>

\* ------------------------------------------- the HTTP front end: requests
\* A request body is the bytes that arrive and the way the stream ends: at
\* its end (EOF) or cut by a read error after those bytes.
HttpPaths == {"/v1/traces", "/v1/metrics", "/v1/logs", "/health"}
ContentTypes == {"application/x-protobuf", "application/json"}
\* An empty body, a protobuf message, a truncated protobuf message, a JSON
\* object, and bytes that are neither.
Payloads == {<<>>, <<10, 0>>, <<10, 2>>, <<123, 125>>, <<255>>}
HttpRequests ==
  [id : {0}, path : HttpPaths, ctype : ContentTypes, sent : Payloads, cut : BOOLEAN]
NoHttp == [id |-> 0, path |-> "", ctype |-> "", sent |-> <<>>, cut |-> FALSE]
NoPass == [bytes |-> <<>>, whole |-> FALSE, made |-> FALSE]
\* Ids of HTTP requests start above those of the binary-RPC exports.
HttpIdBase == 100

NoHttpRequest ==
  /\ hcut = [c \in Callers |-> FALSE]
  /\ hpc = [c \in Callers |-> "idle"]
  /\ hreq = [c \in Callers |-> NoHttp]
  /\ hrest = [c \in Callers |-> [bytes |-> <<>>, cut |-> FALSE]]
  /\ hreadAll = [c \in Callers |-> FALSE]
  /\ hpassed = [c \in Callers |-> NoPass]
  /\ hres = [c \in Callers |-> "none"]
  /\ hcalls = 0

\* ------------------------------------------------- the proxy process: run
\* serveErr: make(chan error, 1)
OpenChannel == [buf |-> <<>>, closed |-> FALSE]

\* No front end is constructed and no Export call was made.
\* run() has not reached its select: waitErr and sigChan are empty.
NoShutdown ==
  /\ waitErr = <<>>
  /\ sigChan = FALSE
  /\ toStop = <<>>

NoFrontEnd ==
  /\ NoShutdown
  /\ toStart = <<>>
  /\ fe = [f \in FrontEnds |-> "none"]
  /\ feBound = [f \in FrontEnds |-> FALSE]
  /\ feServe = [f \in FrontEnds |-> "off"]
  /\ upstreamConn = FALSE
  /\ startCalls = <<>>
  /\ reverseProxy = "none"
  /\ iwriter = FALSE
  /\ serveErr = [f \in FrontEnds |-> OpenChannel]
  /\ errPc = [f \in FrontEnds |-> "off"]
  /\ errRet = [f \in FrontEnds |-> "none"]
  /\ spc = [f \in FrontEnds |-> "idle"]
  /\ upstreamClosed = FALSE
\* run() has started the front ends S and its goroutines wait in Err; each
\* front end is bound and serving, but for those in P, whose goroutine has
\* yet to call ListenAndServe.
Serving(S, P) ==
  /\ NoShutdown
  /\ rpc = "wait"
  /\ toStart = <<>>
  /\ fe = [f \in FrontEnds |-> IF f \in S THEN "started" ELSE "none"]
  /\ feBound = [f \in FrontEnds |-> f \in S \ P]
  /\ feServe = [f \in FrontEnds |->
       IF f \in P THEN "spawned" ELSE IF f \in S THEN "serving" ELSE "off"]
  /\ startCalls = (IF "http" \in S THEN <<"http">> ELSE <<>>)
                    \o (IF "grpc" \in S THEN <<"grpc">> ELSE <<>>)
  /\ serveErr = [f \in FrontEnds |-> OpenChannel]
  /\ errPc = [f \in FrontEnds |-> IF f \in S THEN "waiting" ELSE "off"]
  /\ errRet = [f \in FrontEnds |-> "none"]
  /\ spc = [f \in FrontEnds |-> "idle"]
  /\ upstreamClosed = FALSE
NoExport ==
  /\ epc = [c \in Callers |-> "idle"]
  /\ ereq = [c \in Callers |-> NoRequest]
  /\ client = [v \in Services |-> FALSE]
  /\ eret = [c \in Callers |-> NoResult]
  /\ calls = 0
  /\ inspected = <<>>
  /\ emitterGot = <<>>
  /\ upstreamGot = <<>>
  /\ EmitterFresh
  /\ meters = [written |-> 0, dropped |-> 0,
               recv |-> [f \in FrontEnds |-> [v \in Services |-> 0]]]
  /\ emitErrs = {}
  /\ NoHttpRequest
\* No proxy process is followed.
ProxyIdle ==
  /\ cli = [emit |-> FALSE, relayMetrics |-> FALSE, listenHttp |-> FALSE,
            upstreamHttp |-> "", listen |-> FALSE, upstream |-> FALSE]
  /\ rpc = "off"
  /\ NoFrontEnd
  /\ NoExport

\* run() up to the emitter: with CLI.Emit it calls EnsureServerRunning, else
\* it takes the no-op emitter.  (CLI.Daemon is empty: the daemon is RunDaemon.)
RunBegin ==
  /\ rpc = "begin"
  /\ rpc' = IF cli.emit THEN "ensure" ELSE "init"
  /\ UNCHANGED <<listening, grpcSet, sockFile, broadcast, broadcastClosed,
                 streams, streamsNil, streamCh, chClosed, closeOnce, stats,
                 startPc, loopPc, cur, cpc, ppc, pev, kpc, panicked, emitted,
                 accepted, delivered, regMark, missed, closeRuns, pathEntry,
                 bound, dpc, xpc, polls, spawns, cli, toStart, fe, feBound,
                 feServe, upstreamConn, startCalls, epc, ereq, client, eret,
                 calls, inspected, emitterGot, upstreamGot, mpc, mkind,
                 eclient, econn, mconn, mret, conns, usedConns, rpcs, mcalls,
                 meters, emitErrs, reverseProxy, iwriter, hpc, hreq, hrest,
                 hreadAll, hpassed, hres, hcalls, serveErr, errPc, errRet,
                 spc, upstreamClosed, hcut, waitErr, sigChan, toStop, errCtx>>

\* A run() that goes on whatever EnsureServerRunning returned.
RunEnsureReturnIgnoresError ==
  /\ rpc = "ensure"
  /\ xpc[Runner] \in {"ok", "err_spawn", "err_timeout"}
  /\ rpc' = "init"
  /\ UNCHANGED <<listening, grpcSet, sockFile, broadcast, broadcastClosed,
                 streams, streamsNil, streamCh, chClosed, closeOnce, stats,
                 startPc, loopPc, cur, cpc, ppc, pev, kpc, panicked, emitted,
                 accepted, delivered, regMark, missed, closeRuns, pathEntry,
                 bound, dpc, xpc, polls, spawns, cli, toStart, fe, feBound,
                 feServe, upstreamConn, startCalls, epc, ereq, client, eret,
                 calls, inspected, emitterGot, upstreamGot, mpc, mkind,
                 eclient, econn, mconn, mret, conns, usedConns, rpcs, mcalls,
                 meters, emitErrs, reverseProxy, iwriter, hpc, hreq, hrest,
                 hreadAll, hpassed, hres, hcalls, serveErr, errPc, errRet,
                 spc, upstreamClosed, hcut, waitErr, sigChan, toStop, errCtx>>

\* EnsureServerRunning has returned: on an error run() returns "failed to
\* ensure gRPC server is running", else it makes the socket emitter.
RunEnsureReturn ==
  /\ rpc = "ensure"
  /\ xpc[Runner] \in {"ok", "err_spawn", "err_timeout"}
  /\ rpc' = IF xpc[Runner] = "ok" THEN "init" ELSE "err_ensure"
  /\ UNCHANGED <<listening, grpcSet, sockFile, broadcast, broadcastClosed,
                 streams, streamsNil, streamCh, chClosed, closeOnce, stats,
                 startPc, loopPc, cur, cpc, ppc, pev, kpc, panicked, emitted,
                 accepted, delivered, regMark, missed, closeRuns, pathEntry,
                 bound, dpc, xpc, polls, spawns, cli, toStart, fe, feBound,
                 feServe, upstreamConn, startCalls, epc, ereq, client, eret,
                 calls, inspected, emitterGot, upstreamGot, mpc, mkind,
                 eclient, econn, mconn, mret, conns, usedConns, rpcs, mcalls,
                 meters, emitErrs, reverseProxy, iwriter, hpc, hreq, hrest,
                 hreadAll, hpassed, hres, hcalls, serveErr, errPc, errRet,
                 spc, upstreamClosed, hcut, waitErr, sigChan, toStop, errCtx>>

\* proxies: the HTTP front end first, then the binary-RPC one.
Listed(flags) ==
  (IF flags.listenHttp THEN <<"http">> ELSE <<>>)
  \o (IF flags.listen THEN <<"grpc">> ELSE <<>>)

\* observe.Init when CLI.RelayMetrics, whose error run() returns; then the
\* inspector and the front ends are constructed.
RunInit(initOk) ==
  /\ rpc = "init"
  /\ IF cli.relayMetrics /\ ~initOk
       THEN /\ rpc' = "err_metrics"
            /\ UNCHANGED <<toStart, fe>>
       ELSE /\ rpc' = "start"
            /\ toStart' = Listed(cli)
            /\ fe' = [f \in FrontEnds |->
                 IF (f = "http" /\ cli.listenHttp) \/ (f = "grpc" /\ cli.listen)
                   THEN "new" ELSE "none"]
  /\ UNCHANGED <<listening, grpcSet, sockFile, broadcast, broadcastClosed,
                 streams, streamsNil, streamCh, chClosed, closeOnce, stats,
                 startPc, loopPc, cur, cpc, ppc, pev, kpc, panicked, emitted,
                 accepted, delivered, regMark, missed, closeRuns, pathEntry,
                 bound, dpc, xpc, polls, spawns, cli, feBound, feServe,
                 upstreamConn, startCalls, epc, ereq, client, eret, calls,
                 inspected, emitterGot, upstreamGot, mpc, mkind, eclient,
                 econn, mconn, mret, conns, usedConns, rpcs, mcalls, meters,
                 emitErrs, reverseProxy, iwriter, hpc, hreq, hrest, hreadAll,
                 hpassed, hres, hcalls, serveErr, errPc, errRet, spc,
                 upstreamClosed, hcut, waitErr, sigChan, toStop, errCtx>>

\* if p.upstreamAddr != "" { upstreamURL, err := url.Parse(p.upstreamAddr) ...
\* reverseProxy = httputil.NewSingleHostReverseProxy(upstreamURL) }: a parse
\* error is logged only, and the reverse proxy is then made of a nil URL.
ReverseProxyOf(upstreamAddr) ==
  CASE upstreamAddr = "" -> "none"
    [] upstreamAddr = "url" -> "target"
    [] upstreamAddr = "bad" -> "niltarget"

\* HTTPProxy.Start: builds the reverse proxy and the http.Server, launches the
\* goroutine that will call ListenAndServe, and returns nil.
HTTPStart ==
  /\ reverseProxy' = ReverseProxyOf(cli.upstreamHttp)
  /\ fe' = [fe EXCEPT !["http"] = "started"]
  /\ feServe' = [feServe EXCEPT !["http"] = "spawned"]
  /\ UNCHANGED <<feBound, upstreamConn>>

\* OTLPProxy.Start: grpc.NewClient when an upstream is configured, net.Listen,
\* grpc.NewServer and the registrations, go Serve; it returns nil, or the
\* error of NewClient or of Listen.
OTLPStart(clientOk, bindOk) ==
  IF cli.upstream /\ ~clientOk
    THEN /\ fe' = [fe EXCEPT !["grpc"] = "err_upstream"]
         /\ UNCHANGED <<feBound, feServe, upstreamConn>>
    ELSE /\ upstreamConn' = cli.upstream
         /\ IF bindOk
              THEN /\ fe' = [fe EXCEPT !["grpc"] = "started"]
                   /\ feBound' = [feBound EXCEPT !["grpc"] = TRUE]
                   /\ feServe' = [feServe EXCEPT !["grpc"] = "serving"]
              ELSE /\ fe' = [fe EXCEPT !["grpc"] = "err_listen"]
                   /\ UNCHANGED <<feBound, feServe>>

\* for _, p := range proxies: p.Start(); an error ends run(); after a Start
\* that succeeded, go func() { waitErr <- proxy.Err() }.
RunStartProxy(clientOk, bindOk) ==
  /\ rpc = "start" /\ toStart # <<>>
  /\ LET f == Head(toStart) IN
       /\ startCalls' = Append(startCalls, f)
       /\ IF f = "http"
            THEN HTTPStart
            ELSE OTLPStart(clientOk, bindOk) /\ UNCHANGED reverseProxy
       /\ IF fe'[f] = "started"
            THEN /\ toStart' = Tail(toStart)
                 /\ errPc' = [errPc EXCEPT ![f] = "waiting"]
                 /\ UNCHANGED rpc
            ELSE rpc' = "err_start" /\ UNCHANGED <<toStart, errPc>>
  /\ UNCHANGED <<listening, grpcSet, sockFile, broadcast, broadcastClosed,
                 streams, streamsNil, streamCh, chClosed, closeOnce, stats,
                 startPc, loopPc, cur, cpc, ppc, pev, kpc, panicked, emitted,
                 accepted, delivered, regMark, missed, closeRuns, pathEntry,
                 bound, dpc, xpc, polls, spawns, cli, epc, ereq, client,
                 eret, calls, inspected, emitterGot, upstreamGot, mpc, mkind,
                 eclient, econn, mconn, mret, conns, usedConns, rpcs, mcalls,
                 meters, emitErrs, iwriter, hpc, hreq, hrest, hreadAll,
                 hpassed, hres, hcalls, serveErr, errRet, spc,
                 upstreamClosed, hcut, waitErr, sigChan, toStop, errCtx>>

\* Every front end is started: run() waits for a signal or a front end's Err.
RunStarted ==
  /\ rpc = "start" /\ toStart = <<>>
  /\ rpc' = "wait"
  /\ UNCHANGED <<listening, grpcSet, sockFile, broadcast, broadcastClosed,
                 streams, streamsNil, streamCh, chClosed, closeOnce, stats,
                 startPc, loopPc, cur, cpc, ppc, pev, kpc, panicked, emitted,
                 accepted, delivered, regMark, missed, closeRuns, pathEntry,
                 bound, dpc, xpc, polls, spawns, cli, toStart, fe, feBound,
                 feServe, upstreamConn, startCalls, epc, ereq, client, eret,
                 calls, inspected, emitterGot, upstreamGot, mpc, mkind,
                 eclient, econn, mconn, mret, conns, usedConns, rpcs, mcalls,
                 meters, emitErrs, reverseProxy, iwriter, hpc, hreq, hrest,
                 hreadAll, hpassed, hres, hcalls, serveErr, errPc, errRet,
                 spc, upstreamClosed, hcut, waitErr, sigChan, toStop, errCtx>>

\* A goroutine that reports every error of ListenAndServe.
HTTPServeReturnUnfiltered(ch, err) ==
  [buf |-> Append(ch.buf, err), closed |-> TRUE]

\* if err := p.server.ListenAndServe(); err != nil &&
\*    !errors.Is(err, http.ErrServerClosed) { p.serveErr <- err }
\* close(p.serveErr)
HTTPServeReturn(ch, err) ==
  [buf |-> IF err # "ErrServerClosed" THEN Append(ch.buf, err) ELSE ch.buf,
   closed |-> TRUE]

\* p.serveErr <- p.server.Serve(listener); close(p.serveErr)
OTLPServeReturn(ch, err) == [buf |-> Append(ch.buf, err), closed |-> TRUE]

\* The goroutine of HTTPProxy.Start: p.server.ListenAndServe() binds and
\* serves, or fails to bind and puts the error on serveErr; on a server that
\* was closed already it returns ErrServerClosed at once.
HTTPListenAndServe(bindOk) ==
  /\ feServe["http"] = "spawned"
  /\ IF spc["http"] # "idle"
       THEN /\ feServe' = [feServe EXCEPT !["http"] = "exited_stop"]
            /\ serveErr' = [serveErr EXCEPT !["http"] = HTTPServeReturn(@, "ErrServerClosed")]
            /\ UNCHANGED feBound
       ELSE IF bindOk
         THEN /\ feBound' = [feBound EXCEPT !["http"] = TRUE]
              /\ feServe' = [feServe EXCEPT !["http"] = "serving"]
              /\ UNCHANGED serveErr
         ELSE /\ feServe' = [feServe EXCEPT !["http"] = "err_bind"]
              /\ serveErr' = [serveErr EXCEPT !["http"] = HTTPServeReturn(@, "bind")]
              /\ UNCHANGED feBound
  /\ UNCHANGED <<listening, grpcSet, sockFile, broadcast, broadcastClosed,
                 streams, streamsNil, streamCh, chClosed, closeOnce, stats,
                 startPc, loopPc, cur, cpc, ppc, pev, kpc, panicked, emitted,
                 accepted, delivered, regMark, missed, closeRuns, pathEntry,
                 bound, dpc, xpc, polls, spawns, cli, rpc, toStart, fe,
                 upstreamConn, startCalls, epc, ereq, client, eret, calls,
                 inspected, emitterGot, upstreamGot, mpc, mkind, eclient,
                 econn, mconn, mret, conns, usedConns, rpcs, mcalls, meters,
                 emitErrs, reverseProxy, iwriter, hpc, hreq, hrest, hreadAll,
                 hpassed, hres, hcalls, errPc, errRet, spc, upstreamClosed,
                 hcut, waitErr, sigChan, toStop, errCtx>>

\* The serving loop of a front end ends on its own: Accept fails for good,
\* ListenAndServe or Serve returns that error.
ServeFails(f) ==
  /\ feServe[f] = "serving"
  /\ feServe' = [feServe EXCEPT ![f] = "exited_err"]
  /\ feBound' = [feBound EXCEPT ![f] = FALSE]
  /\ serveErr' = [serveErr EXCEPT ![f] =
       IF f = "http" THEN HTTPServeReturn(@, "accept") ELSE OTLPServeReturn(@, "accept")]
  /\ UNCHANGED <<listening, grpcSet, sockFile, broadcast, broadcastClosed,
                 streams, streamsNil, streamCh, chClosed, closeOnce, stats,
                 startPc, loopPc, cur, cpc, ppc, pev, kpc, panicked, emitted,
                 accepted, delivered, regMark, missed, closeRuns, pathEntry,
                 bound, dpc, xpc, polls, spawns, cli, rpc, toStart, fe,
                 upstreamConn, startCalls, epc, ereq, client, eret, calls,
                 inspected, emitterGot, upstreamGot, mpc, mkind, eclient,
                 econn, mconn, mret, conns, usedConns, rpcs, mcalls, meters,
                 emitErrs, reverseProxy, iwriter, hpc, hreq, hrest, hreadAll,
                 hpassed, hres, hcalls, errPc, errRet, spc, upstreamClosed,
                 hcut, waitErr, sigChan, toStop, errCtx>>

\* HTTPProxy.Stop: p.server.Close() closes the listener and every connection,
\* those with a request in progress too, and does not wait for the handlers.
HTTPStop ==
  /\ spc["http"] = "idle" /\ fe["http"] = "started"
  /\ spc' = [spc EXCEPT !["http"] = "done"]
  /\ hcut' = [c \in Callers |-> hcut[c] \/ hpc[c] # "idle"]
  /\ feBound' = [feBound EXCEPT !["http"] = FALSE]
  /\ feServe' = [feServe EXCEPT !["http"] =
       IF @ = "serving" THEN "closing" ELSE @]
  /\ UNCHANGED <<listening, grpcSet, sockFile, broadcast, broadcastClosed,
                 streams, streamsNil, streamCh, chClosed, closeOnce, stats,
                 startPc, loopPc, cur, cpc, ppc, pev, kpc, panicked, emitted,
                 accepted, delivered, regMark, missed, closeRuns, pathEntry,
                 bound, dpc, xpc, polls, spawns, cli, rpc, toStart, fe,
                 upstreamConn, startCalls, epc, ereq, client, eret, calls,
                 inspected, emitterGot, upstreamGot, mpc, mkind, eclient,
                 econn, mconn, mret, conns, usedConns, rpcs, mcalls, meters,
                 emitErrs, reverseProxy, iwriter, hpc, hreq, hrest, hreadAll,
                 hpassed, hres, hcalls, serveErr, errPc, errRet,
                 upstreamClosed, waitErr, sigChan, toStop, errCtx>>

\* After Close, ListenAndServe returns ErrServerClosed and the goroutine
\* closes serveErr.
HTTPServeClosed ==
  /\ feServe["http"] = "closing"
  /\ feServe' = [feServe EXCEPT !["http"] = "exited_stop"]
  /\ serveErr' = [serveErr EXCEPT !["http"] = HTTPServeReturn(@, "ErrServerClosed")]
  /\ UNCHANGED <<listening, grpcSet, sockFile, broadcast, broadcastClosed,
                 streams, streamsNil, streamCh, chClosed, closeOnce, stats,
                 startPc, loopPc, cur, cpc, ppc, pev, kpc, panicked, emitted,
                 accepted, delivered, regMark, missed, closeRuns, pathEntry,
                 bound, dpc, xpc, polls, spawns, cli, rpc, toStart, fe,
                 feBound, upstreamConn, startCalls, epc, ereq, client, eret,
                 calls, inspected, emitterGot, upstreamGot, mpc, mkind,
                 eclient, econn, mconn, mret, conns, usedConns, rpcs, mcalls,
                 meters, emitErrs, reverseProxy, iwriter, hpc, hreq, hrest,
                 hreadAll, hpassed, hres, hcalls, errPc, errRet, spc,
                 upstreamClosed, hcut, waitErr, sigChan, toStop, errCtx>>

\* OTLPProxy.Stop, p.server.GracefulStop(), first half: the listener is
\* closed and no new RPC is accepted.
OTLPStopBegin ==
  /\ spc["grpc"] = "idle" /\ fe["grpc"] = "started"
  /\ spc' = [spc EXCEPT !["grpc"] = "drain"]
  /\ feBound' = [feBound EXCEPT !["grpc"] = FALSE]
  /\ feServe' = [feServe EXCEPT !["grpc"] = IF @ = "serving" THEN "draining" ELSE @]
  /\ UNCHANGED <<listening, grpcSet, sockFile, broadcast, broadcastClosed,
                 streams, streamsNil, streamCh, chClosed, closeOnce, stats,
                 startPc, loopPc, cur, cpc, ppc, pev, kpc, panicked, emitted,
                 accepted, delivered, regMark, missed, closeRuns, pathEntry,
                 bound, dpc, xpc, polls, spawns, cli, rpc, toStart, fe,
                 upstreamConn, startCalls, epc, ereq, client, eret, calls,
                 inspected, emitterGot, upstreamGot, mpc, mkind, eclient,
                 econn, mconn, mret, conns, usedConns, rpcs, mcalls, meters,
                 emitErrs, reverseProxy, iwriter, hpc, hreq, hrest, hreadAll,
                 hpassed, hres, hcalls, serveErr, errPc, errRet,
                 upstreamClosed, hcut, waitErr, sigChan, toStop, errCtx>>

\* GracefulStop returns once every pending RPC has finished.
ExportsDrained == \A c \in Callers : epc[c] = "idle"

\* GracefulStop, second half: the pending RPCs have finished; Serve, which
\* waited for GracefulStop, returns nil and the goroutine puts it on serveErr.
OTLPStopDrained ==
  /\ spc["grpc"] = "drain"
  /\ ExportsDrained
  /\ spc' = [spc EXCEPT !["grpc"] = "connclose"]
  /\ IF feServe["grpc"] = "draining"
       THEN /\ feServe' = [feServe EXCEPT !["grpc"] = "exited_stop"]
            /\ serveErr' = [serveErr EXCEPT !["grpc"] = OTLPServeReturn(@, "nil")]
       ELSE UNCHANGED <<feServe, serveErr>>
  /\ UNCHANGED <<listening, grpcSet, sockFile, broadcast, broadcastClosed,
                 streams, streamsNil, streamCh, chClosed, closeOnce, stats,
                 startPc, loopPc, cur, cpc, ppc, pev, kpc, panicked, emitted,
                 accepted, delivered, regMark, missed, closeRuns, pathEntry,
                 bound, dpc, xpc, polls, spawns, cli, rpc, toStart, fe,
                 feBound, upstreamConn, startCalls, epc, ereq, client, eret,
                 calls, inspected, emitterGot, upstreamGot, mpc, mkind,
                 eclient, econn, mconn, mret, conns, usedConns, rpcs, mcalls,
                 meters, emitErrs, reverseProxy, iwriter, hpc, hreq, hrest,
                 hreadAll, hpassed, hres, hcalls, errPc, errRet,
                 upstreamClosed, hcut, waitErr, sigChan, toStop, errCtx>>

\* if p.upstreamConn != nil { err = p.upstreamConn.Close() }; Stop returns.
OTLPStopConnClose ==
  /\ spc["grpc"] = "connclose"
  /\ upstreamClosed' = upstreamConn
  /\ spc' = [spc EXCEPT !["grpc"] = "done"]
  /\ UNCHANGED <<listening, grpcSet, sockFile, broadcast, broadcastClosed,
                 streams, streamsNil, streamCh, chClosed, closeOnce, stats,
                 startPc, loopPc, cur, cpc, ppc, pev, kpc, panicked, emitted,
                 accepted, delivered, regMark, missed, closeRuns, pathEntry,
                 bound, dpc, xpc, polls, spawns, cli, rpc, toStart, fe,
                 feBound, feServe, upstreamConn, startCalls, epc, ereq,
                 client, eret, calls, inspected, emitterGot, upstreamGot,
                 mpc, mkind, eclient, econn, mconn, mret, conns, usedConns,
                 rpcs, mcalls, meters, emitErrs, reverseProxy, iwriter, hpc,
                 hreq, hrest, hreadAll, hpassed, hres, hcalls, serveErr,
                 errPc, errRet, hcut, waitErr, sigChan, toStop, errCtx>>

\* Err: return <-p.serveErr. It returns the value on the channel, or nil once
\* the channel is closed and empty.
ErrReturn(f) ==
  /\ errPc[f] = "waiting"
  /\ serveErr[f].buf # <<>> \/ serveErr[f].closed
  /\ errPc' = [errPc EXCEPT ![f] = "returned"]
  /\ IF serveErr[f].buf # <<>>
       THEN /\ errRet' = [errRet EXCEPT ![f] = Head(serveErr[f].buf)]
            /\ serveErr' = [serveErr EXCEPT ![f].buf = Tail(@)]
       ELSE /\ errRet' = [errRet EXCEPT ![f] = "nil"]
            /\ UNCHANGED serveErr
  /\ UNCHANGED <<listening, grpcSet, sockFile, broadcast, broadcastClosed,
                 streams, streamsNil, streamCh, chClosed, closeOnce, stats,
                 startPc, loopPc, cur, cpc, ppc, pev, kpc, panicked, emitted,
                 accepted, delivered, regMark, missed, closeRuns, pathEntry,
                 bound, dpc, xpc, polls, spawns, cli, rpc, toStart, fe,
                 feBound, feServe, upstreamConn, startCalls, epc, ereq,
                 client, eret, calls, inspected, emitterGot, upstreamGot,
                 mpc, mkind, eclient, econn, mconn, mret, conns, usedConns,
                 rpcs, mcalls, meters, emitErrs, reverseProxy, iwriter, hpc,
                 hreq, hrest, hreadAll, hpassed, hres, hcalls, spc,
                 upstreamClosed, hcut, waitErr, sigChan, toStop, errCtx>>

\* ------------------------------------------- run(): signal and shutdown
\* go func(proxy proxy.Proxy) { waitErr <- proxy.Err() }: Err has returned
\* and its value goes on waitErr, which has room for one value per front end.
ErrSend(f) ==
  /\ errPc[f] = "returned"
  /\ errPc' = [errPc EXCEPT ![f] = "sent"]
  /\ waitErr' = Append(waitErr, errRet[f])
  /\ UNCHANGED <<listening, grpcSet, sockFile, broadcast, broadcastClosed,
                 streams, streamsNil, streamCh, chClosed, closeOnce, stats,
                 startPc, loopPc, cur, cpc, ppc, pev, kpc, panicked, emitted,
                 accepted, delivered, regMark, missed, closeRuns, pathEntry,
                 bound, dpc, xpc, polls, spawns, cli, rpc, toStart, fe,
                 feBound, feServe, upstreamConn, startCalls, epc, ereq,
                 client, eret, calls, inspected, emitterGot, upstreamGot,
                 mpc, mkind, eclient, econn, mconn, mret, conns, usedConns,
                 rpcs, mcalls, meters, emitErrs, reverseProxy, iwriter, hpc,
                 hreq, hrest, hreadAll, hpassed, hres, hcalls, serveErr,
                 errRet, spc, upstreamClosed, hcut, sigChan, toStop, errCtx>>

\* An interrupt or a termination signal is delivered to sigChan, which
\* signal.Notify registered after the front ends were started; sigChan holds
\* one signal and a signal that finds it full is dropped.
SignalArrives ==
  /\ rpc \in {"wait", "sig_stopping", "err_stopping", "sig_wait"}
  /\ ~sigChan
  /\ sigChan' = TRUE
  /\ UNCHANGED <<listening, grpcSet, sockFile, broadcast, broadcastClosed,
                 streams, streamsNil, streamCh, chClosed, closeOnce, stats,
                 startPc, loopPc, cur, cpc, ppc, pev, kpc, panicked, emitted,
                 accepted, delivered, regMark, missed, closeRuns, pathEntry,
                 bound, dpc, xpc, polls, spawns, cli, rpc, toStart, fe,
                 feBound, feServe, upstreamConn, startCalls, epc, ereq,
                 client, eret, calls, inspected, emitterGot, upstreamGot,
                 mpc, mkind, eclient, econn, mconn, mret, conns, usedConns,
                 rpcs, mcalls, meters, emitErrs, reverseProxy, iwriter, hpc,
                 hreq, hrest, hreadAll, hpassed, hres, hcalls, serveErr,
                 errPc, errRet, spc, upstreamClosed, hcut, waitErr, toStop,
                 errCtx>>

\* select { case sig := <-sigChan: ... case err := <-waitErr: ... }: one of
\* the ready cases is taken. A signal begins stopProxies(proxies); an error
\* that is not nil begins stopProxies(proxies) as well, a nil makes run()
\* return nil.
RunSelect ==
  /\ rpc = "wait"
  /\ \/ /\ sigChan
        /\ sigChan' = FALSE
        /\ rpc' = "sig_stopping"
        /\ toStop' = Listed(cli)
        /\ UNCHANGED waitErr
     \/ /\ waitErr # <<>>
        /\ waitErr' = Tail(waitErr)
        /\ IF Head(waitErr) # "nil"
             THEN rpc' = "err_stopping" /\ toStop' = Listed(cli)
             ELSE rpc' = "ret_nil" /\ UNCHANGED toStop
        /\ UNCHANGED sigChan
  /\ UNCHANGED <<listening, grpcSet, sockFile, broadcast, broadcastClosed,
                 streams, streamsNil, streamCh, chClosed, closeOnce, stats,
                 startPc, loopPc, cur, cpc, ppc, pev, kpc, panicked, emitted,
                 accepted, delivered, regMark, missed, closeRuns, pathEntry,
                 bound, dpc, xpc, polls, spawns, cli, toStart, fe, feBound,
                 feServe, upstreamConn, startCalls, epc, ereq, client, eret,
                 calls, inspected, emitterGot, upstreamGot, mpc, mkind,
                 eclient, econn, mconn, mret, conns, usedConns, rpcs, mcalls,
                 meters, emitErrs, reverseProxy, iwriter, hpc, hreq, hrest,
                 hreadAll, hpassed, hres, hcalls, serveErr, errPc, errRet,
                 spc, upstreamClosed, hcut, errCtx>>

InStopProxies == rpc \in {"sig_stopping", "err_stopping"}

\* stopProxies: p.Stop() is called on the next front end.
RunStop(f) ==
  /\ InStopProxies /\ toStop # <<>> /\ Head(toStop) = f
  /\ IF f = "http" THEN HTTPStop ELSE OTLPStopBegin

\* stopProxies: p.Stop() has returned; the loop goes on to the next front
\* end. After the last, the signal case goes on to receive from waitErr and
\* the error case returns "proxy server error".
RunStopReturned ==
  /\ InStopProxies /\ toStop # <<>> /\ spc[Head(toStop)] = "done"
  /\ toStop' = Tail(toStop)
  /\ rpc' = IF Tail(toStop) # <<>> THEN rpc
            ELSE IF rpc = "sig_stopping" THEN "sig_wait" ELSE "ret_proxy_err"
  /\ UNCHANGED <<listening, grpcSet, sockFile, broadcast, broadcastClosed,
                 streams, streamsNil, streamCh, chClosed, closeOnce, stats,
                 startPc, loopPc, cur, cpc, ppc, pev, kpc, panicked, emitted,
                 accepted, delivered, regMark, missed, closeRuns, pathEntry,
                 bound, dpc, xpc, polls, spawns, cli, toStart, fe, feBound,
                 feServe, upstreamConn, startCalls, epc, ereq, client, eret,
                 calls, inspected, emitterGot, upstreamGot, mpc, mkind,
                 eclient, econn, mconn, mret, conns, usedConns, rpcs, mcalls,
                 meters, emitErrs, reverseProxy, iwriter, hpc, hreq, hrest,
                 hreadAll, hpassed, hres, hcalls, serveErr, errPc, errRet,
                 spc, upstreamClosed, hcut, waitErr, sigChan, errCtx>>

\* stopProxies(proxies) with no front end returns at once.
RunStopNone ==
  /\ InStopProxies /\ toStop = <<>>
  /\ rpc' = IF rpc = "sig_stopping" THEN "sig_wait" ELSE "ret_proxy_err"
  /\ UNCHANGED <<listening, grpcSet, sockFile, broadcast, broadcastClosed,
                 streams, streamsNil, streamCh, chClosed, closeOnce, stats,
                 startPc, loopPc, cur, cpc, ppc, pev, kpc, panicked, emitted,
                 accepted, delivered, regMark, missed, closeRuns, pathEntry,
                 bound, dpc, xpc, polls, spawns, cli, toStart, fe, feBound,
                 feServe, upstreamConn, startCalls, epc, ereq, client, eret,
                 calls, inspected, emitterGot, upstreamGot, mpc, mkind,
                 eclient, econn, mconn, mret, conns, usedConns, rpcs, mcalls,
                 meters, emitErrs, reverseProxy, iwriter, hpc, hreq, hrest,
                 hreadAll, hpassed, hres, hcalls, serveErr, errPc, errRet,
                 spc, upstreamClosed, hcut, waitErr, sigChan, toStop, errCtx>>

\* The signal case after stopProxies: err := <-waitErr takes the first value
\* on waitErr; run() returns "server stopped with error" if it is not nil
\* and nil if it is.
RunAfterSignal ==
  /\ rpc = "sig_wait" /\ waitErr # <<>>
  /\ waitErr' = Tail(waitErr)
  /\ rpc' = IF Head(waitErr) # "nil" THEN "ret_sig_err" ELSE "ret_sig_nil"
  /\ UNCHANGED <<listening, grpcSet, sockFile, broadcast, broadcastClosed,
                 streams, streamsNil, streamCh, chClosed, closeOnce, stats,
                 startPc, loopPc, cur, cpc, ppc, pev, kpc, panicked, emitted,
                 accepted, delivered, regMark, missed, closeRuns, pathEntry,
                 bound, dpc, xpc, polls, spawns, cli, toStart, fe, feBound,
                 feServe, upstreamConn, startCalls, epc, ereq, client, eret,
                 calls, inspected, emitterGot, upstreamGot, mpc, mkind,
                 eclient, econn, mconn, mret, conns, usedConns, rpcs, mcalls,
                 meters, emitErrs, reverseProxy, iwriter, hpc, hreq, hrest,
                 hreadAll, hpassed, hres, hcalls, serveErr, errPc, errRet,
                 spc, upstreamClosed, hcut, sigChan, toStop, errCtx>>

\* ------------------------------------ the binary-RPC front end: Export
\* The Inspector method each service's Export calls.
InspectMethodAlwaysTraces(service) == "InspectTraces"

InspectMethod(service) ==
  CASE service = "trace" -> "InspectTraces"
    [] service = "metrics" -> "InspectMetrics"
    [] service = "logs" -> "InspectLogs"

\* The Inspector hands what it was given to the Emitter, by the Emitter's
\* method of the same kind, which makes the event's type.
InspectorHandOff(got, id, method) ==
  Append(got, [id |-> id,
               kind |-> CASE method = "InspectTraces" -> "TRACE"
                          [] method = "InspectMetrics" -> "METRIC"
                          [] method = "InspectLogs" -> "LOG"])

\* The gRPC server hands an export call of a service to its Export.
ExportBegin(c, service) ==
  /\ feServe["grpc"] = "serving" /\ epc[c] = "idle" /\ calls < MaxCalls
  /\ calls' = calls + 1
  /\ ereq' = [ereq EXCEPT ![c] = [id |-> calls + 1, service |-> service]]
  /\ eret' = [eret EXCEPT ![c] = NoResult]
  /\ epc' = [epc EXCEPT ![c] = "inspect"]
  /\ UNCHANGED <<listening, grpcSet, sockFile, broadcast, broadcastClosed,
                 streams, streamsNil, streamCh, chClosed, closeOnce, stats,
                 startPc, loopPc, cur, cpc, ppc, pev, kpc, panicked, emitted,
                 accepted, delivered, regMark, missed, closeRuns, pathEntry,
                 bound, dpc, xpc, polls, spawns, cli, rpc, toStart, fe,
                 feBound, feServe, upstreamConn, startCalls, client,
                 inspected, emitterGot, upstreamGot, mpc, mkind, eclient,
                 econn, mconn, mret, conns, usedConns, rpcs, mcalls, meters,
                 emitErrs, reverseProxy, iwriter, hpc, hreq, hrest, hreadAll,
                 hpassed, hres, hcalls, serveErr, errPc, errRet, spc,
                 upstreamClosed, hcut, waitErr, sigChan, toStop, errCtx>>

\* incrementMetric(ctx, i.metrics.GrpcTracesRecv) and its like: the receive
\* counter of a transport and a kind.
CountRecv(m, transport, service) ==
  [m EXCEPT !.recv[transport][service] = @ + 1]

\* Inspector.write, the Emitter's part: an error of the Emitter is logged
\* and counted in EventsDropped, a success is counted in EventsWritten;
\* write returns nothing.
InspectorWrite(m, emitOk) ==
  IF emitOk THEN [m EXCEPT !.written = @ + 1] ELSE [m EXCEPT !.dropped = @ + 1]

\* An Export that gives up when the Emitter failed.
ExportInspectAbortsOnEmitError(c, emitOk) ==
  /\ epc[c] = "inspect"
  /\ LET m == InspectMethod(ereq[c].service) IN
       /\ inspected' = Append(inspected,
            [id |-> ereq[c].id, service |-> ereq[c].service, method |-> m])
       /\ emitterGot' = InspectorHandOff(emitterGot, ereq[c].id, m)
  /\ meters' = InspectorWrite(CountRecv(meters, "grpc", ereq[c].service), emitOk)
  /\ emitErrs' = IF emitOk THEN emitErrs ELSE emitErrs \cup {ereq[c].id}
  /\ IF emitOk
       THEN epc' = [epc EXCEPT ![c] = "client"] /\ UNCHANGED eret
       ELSE /\ epc' = [epc EXCEPT ![c] = "idle"]
            /\ eret' = [eret EXCEPT ![c] = [resp |-> "none", err |-> "Emitter"]]
  /\ UNCHANGED <<listening, grpcSet, sockFile, broadcast, broadcastClosed,
                 streams, streamsNil, streamCh, chClosed, closeOnce, stats,
                 startPc, loopPc, cur, cpc, ppc, pev, kpc, panicked, emitted,
                 accepted, delivered, regMark, missed, closeRuns, pathEntry,
                 bound, dpc, xpc, polls, spawns, cli, rpc, toStart, fe,
                 feBound, feServe, upstreamConn, startCalls, ereq, client,
                 calls, upstreamGot, mpc, mkind, eclient, econn, mconn, mret,
                 conns, usedConns, rpcs, mcalls, reverseProxy, iwriter, hpc,
                 hreq, hrest, hreadAll, hpassed, hres, hcalls, serveErr,
                 errPc, errRet, spc, upstreamClosed, hcut, waitErr, sigChan,
                 toStop, errCtx>>

\* t.inspector.InspectTraces(req) (InspectMetrics, InspectLogs): the receive
\* counter, then the hand-off to the Emitter, which succeeds or fails; the
\* method returns nothing and Export goes on.
ExportInspect(c, emitOk) ==
  /\ epc[c] = "inspect"
  /\ LET m == InspectMethod(ereq[c].service) IN
       /\ inspected' = Append(inspected,
            [id |-> ereq[c].id, service |-> ereq[c].service, method |-> m])
       /\ emitterGot' = InspectorHandOff(emitterGot, ereq[c].id, m)
  /\ meters' = InspectorWrite(CountRecv(meters, "grpc", ereq[c].service), emitOk)
  /\ emitErrs' = IF emitOk THEN emitErrs ELSE emitErrs \cup {ereq[c].id}
  /\ epc' = [epc EXCEPT ![c] = "client"]
  /\ UNCHANGED <<listening, grpcSet, sockFile, broadcast, broadcastClosed,
                 streams, streamsNil, streamCh, chClosed, closeOnce, stats,
                 startPc, loopPc, cur, cpc, ppc, pev, kpc, panicked, emitted,
                 accepted, delivered, regMark, missed, closeRuns, pathEntry,
                 bound, dpc, xpc, polls, spawns, cli, rpc, toStart, fe,
                 feBound, feServe, upstreamConn, startCalls, ereq, client,
                 eret, calls, upstreamGot, mpc, mkind, eclient, econn, mconn,
                 mret, conns, usedConns, rpcs, mcalls, reverseProxy, iwriter,
                 hpc, hreq, hrest, hreadAll, hpassed, hres, hcalls, serveErr,
                 errPc, errRet, spc, upstreamClosed, hcut, waitErr, sigChan,
                 toStop, errCtx>>

\* if t.upstreamConn != nil && t.client == nil { t.client = New...Client }
\* Two calls that both find the client nil both make one; the field is set.
ExportClient(c) ==
  /\ epc[c] = "client"
  /\ client' = [client EXCEPT ![ereq[c].service] = @ \/ upstreamConn]
  /\ epc' = [epc EXCEPT ![c] = "forward"]
  /\ UNCHANGED <<listening, grpcSet, sockFile, broadcast, broadcastClosed,
                 streams, streamsNil, streamCh, chClosed, closeOnce, stats,
                 startPc, loopPc, cur, cpc, ppc, pev, kpc, panicked, emitted,
                 accepted, delivered, regMark, missed, closeRuns, pathEntry,
                 bound, dpc, xpc, polls, spawns, cli, rpc, toStart, fe,
                 feBound, feServe, upstreamConn, startCalls, ereq, eret,
                 calls, inspected, emitterGot, upstreamGot, mpc, mkind,
                 eclient, econn, mconn, mret, conns, usedConns, rpcs, mcalls,
                 meters, emitErrs, reverseProxy, iwriter, hpc, hreq, hrest,
                 hreadAll, hpassed, hres, hcalls, serveErr, errPc, errRet,
                 spc, upstreamClosed, hcut, waitErr, sigChan, toStop, errCtx>>

\* An Export that reports every upstream failure as one error of its own.
ExportForwardOwnError(c, answer) ==
  /\ epc[c] = "forward"
  /\ IF client[ereq[c].service]
       THEN /\ upstreamGot' = Append(upstreamGot,
                 [id |-> ereq[c].id, service |-> ereq[c].service, answer |-> answer])
            /\ eret' = [eret EXCEPT ![c] =
                 IF answer = "ok" THEN [resp |-> "upstream", err |-> "nil"]
                 ELSE [resp |-> "none", err |-> "Internal"]]
       ELSE /\ answer = "ok"
            /\ eret' = [eret EXCEPT ![c] = [resp |-> "zero", err |-> "nil"]]
            /\ UNCHANGED upstreamGot
  /\ epc' = [epc EXCEPT ![c] = "idle"]
  /\ UNCHANGED <<listening, grpcSet, sockFile, broadcast, broadcastClosed,
                 streams, streamsNil, streamCh, chClosed, closeOnce, stats,
                 startPc, loopPc, cur, cpc, ppc, pev, kpc, panicked, emitted,
                 accepted, delivered, regMark, missed, closeRuns, pathEntry,
                 bound, dpc, xpc, polls, spawns, cli, rpc, toStart, fe,
                 feBound, feServe, upstreamConn, startCalls, ereq, client,
                 calls, inspected, emitterGot, mpc, mkind, eclient, econn,
                 mconn, mret, conns, usedConns, rpcs, mcalls, meters,
                 emitErrs, reverseProxy, iwriter, hpc, hreq, hrest, hreadAll,
                 hpassed, hres, hcalls, serveErr, errPc, errRet, spc,
                 upstreamClosed, hcut, waitErr, sigChan, toStop, errCtx>>

\* if t.client != nil { return t.client.Export(ctx, req) }: the upstream's
\* response or its error; otherwise the zero-value response and nil.
ExportForward(c, answer) ==
  /\ epc[c] = "forward"
  /\ IF client[ereq[c].service]
       THEN /\ upstreamGot' = Append(upstreamGot,
                 [id |-> ereq[c].id, service |-> ereq[c].service, answer |-> answer])
            /\ eret' = [eret EXCEPT ![c] =
                 IF answer = "ok" THEN [resp |-> "upstream", err |-> "nil"]
                 ELSE [resp |-> "none", err |-> answer]]
       ELSE /\ answer = "ok"
            /\ eret' = [eret EXCEPT ![c] = [resp |-> "zero", err |-> "nil"]]
            /\ UNCHANGED upstreamGot
  /\ epc' = [epc EXCEPT ![c] = "idle"]
  /\ UNCHANGED <<listening, grpcSet, sockFile, broadcast, broadcastClosed,
                 streams, streamsNil, streamCh, chClosed, closeOnce, stats,
                 startPc, loopPc, cur, cpc, ppc, pev, kpc, panicked, emitted,
                 accepted, delivered, regMark, missed, closeRuns, pathEntry,
                 bound, dpc, xpc, polls, spawns, cli, rpc, toStart, fe,
                 feBound, feServe, upstreamConn, startCalls, ereq, client,
                 calls, inspected, emitterGot, mpc, mkind, eclient, econn,
                 mconn, mret, conns, usedConns, rpcs, mcalls, meters,
                 emitErrs, reverseProxy, iwriter, hpc, hreq, hrest, hreadAll,
                 hpassed, hres, hcalls, serveErr, errPc, errRet, spc,
                 upstreamClosed, hcut, waitErr, sigChan, toStop, errCtx>>

\* ------------------------------------------------------- the server's Spec
\* The events Emit is called with; the id is given at the select.
Events == [id : {0}, type : EventTypes, len : DataLens]

\* ------------------------------------------- the HTTP front end: handler
\* A test that takes every path for an export path.
KnownPathAny(path) == TRUE

\* req.URL.Path is "/v1/traces", "/v1/metrics" or "/v1/logs"
KnownPath(path) == path = "/v1/traces" \/ path = "/v1/metrics" \/ path = "/v1/logs"

\* switch req.URL.Path: the switch has no default, a path that is none of
\* its cases takes none.
ServiceOfPath(path) ==
  CASE path = "/v1/traces" -> "trace"
    [] path = "/v1/metrics" -> "metrics"
    [] path = "/v1/logs" -> "logs"
    [] OTHER -> "none"

\* isProto := strings.Contains(contentType, "application/x-protobuf")
IsProto(ctype) == ctype = "application/x-protobuf"

\* A decoder that takes every body.
UnmarshalsAnything(body, isProto) == TRUE

\* proto.Unmarshal takes the empty body (an empty message) and field 1 as a
\* length-delimited value (tag 10) whose length is what follows; a length
\* that runs past the end is a truncated message, and a first byte that is no
\* such tag is rejected. protojson.Unmarshal takes a JSON object.
Unmarshals(body, isProto) ==
  IF isProto
    THEN body = <<>> \/ (Len(body) >= 2 /\ body[1] = 10 /\ Len(body) = 2 + body[2])
    ELSE Len(body) >= 2 /\ body[1] = 123 /\ body[Len(body)] = 125

\* canWrite(): with the no-op Emitter only if the writer is not io.Discard.
CanWrite == cli.emit \/ iwriter

\* The http.Server hands a request to the handler.
HttpBegin(c, req) ==
  /\ feServe["http"] = "serving" /\ hpc[c] = "idle" /\ hcalls < MaxHttpCalls
  /\ hcalls' = hcalls + 1
  /\ hreq' = [hreq EXCEPT ![c] = [req EXCEPT !.id = HttpIdBase + hcalls + 1]]
  /\ hrest' = [hrest EXCEPT ![c] = [bytes |-> req.sent, cut |-> req.cut]]
  /\ hreadAll' = [hreadAll EXCEPT ![c] = FALSE]
  /\ hpassed' = [hpassed EXCEPT ![c] = NoPass]
  /\ hres' = [hres EXCEPT ![c] = "none"]
  /\ hcut' = [hcut EXCEPT ![c] = FALSE]
  /\ hpc' = [hpc EXCEPT ![c] = "inspect"]
  /\ UNCHANGED <<listening, grpcSet, sockFile, broadcast, broadcastClosed,
                 streams, streamsNil, streamCh, chClosed, closeOnce, stats,
                 startPc, loopPc, cur, cpc, ppc, pev, kpc, panicked, emitted,
                 accepted, delivered, regMark, missed, closeRuns, pathEntry,
                 bound, dpc, xpc, polls, spawns, cli, rpc, toStart, fe,
                 feBound, feServe, upstreamConn, startCalls, epc, ereq,
                 client, eret, calls, inspected, emitterGot, upstreamGot,
                 mpc, mkind, eclient, econn, mconn, mret, conns, usedConns,
                 rpcs, mcalls, meters, emitErrs, reverseProxy, iwriter,
                 serveErr, errPc, errRet, spc, upstreamClosed, waitErr,
                 sigChan, toStop, errCtx>>

\* body, err := io.ReadAll(req.Body): the read takes every byte that arrives.
\* On an error the function returns and req.Body stays the drained reader;
\* else req.Body = io.NopCloser(bytes.NewReader(body)).
HttpReadBody(c) ==
  /\ hreadAll' = [hreadAll EXCEPT ![c] = TRUE]
  /\ hrest' = [hrest EXCEPT ![c] =
       IF hrest[c].cut THEN [bytes |-> <<>>, cut |-> TRUE]
       ELSE [bytes |-> hrest[c].bytes, cut |-> FALSE]]

\* p.inspector.InspectHttpRequest(r)
HttpInspect(c, emitOk) ==
  /\ hpc[c] = "inspect"
  /\ hpc' = [hpc EXCEPT ![c] = "respond"]
  /\ IF CanWrite /\ KnownPath(hreq[c].path)
       THEN /\ HttpReadBody(c)
            /\ IF ~hrest[c].cut
                  /\ ServiceOfPath(hreq[c].path) # "none"
                  /\ Unmarshals(hrest[c].bytes, IsProto(hreq[c].ctype))
                 THEN LET service == ServiceOfPath(hreq[c].path)
                          counted == CountRecv(meters, "http", service) IN
                        IF cli.emit
                          THEN /\ emitterGot' = InspectorHandOff(emitterGot,
                                    hreq[c].id, InspectMethod(service))
                               /\ meters' = InspectorWrite(counted, emitOk)
                               /\ emitErrs' = IF emitOk THEN emitErrs
                                              ELSE emitErrs \cup {hreq[c].id}
                          ELSE /\ emitOk
                               /\ meters' = counted
                               /\ UNCHANGED <<emitterGot, emitErrs>>
                 ELSE emitOk /\ UNCHANGED <<meters, emitterGot, emitErrs>>
       ELSE emitOk /\ UNCHANGED <<hreadAll, hrest, meters, emitterGot, emitErrs>>
  /\ UNCHANGED <<listening, grpcSet, sockFile, broadcast, broadcastClosed,
                 streams, streamsNil, streamCh, chClosed, closeOnce, stats,
                 startPc, loopPc, cur, cpc, ppc, pev, kpc, panicked, emitted,
                 accepted, delivered, regMark, missed, closeRuns, pathEntry,
                 bound, dpc, xpc, polls, spawns, cli, rpc, toStart, fe,
                 feBound, feServe, upstreamConn, startCalls, epc, ereq,
                 client, eret, calls, inspected, upstreamGot, mpc, mkind,
                 eclient, econn, mconn, mret, conns, usedConns, rpcs, mcalls,
                 reverseProxy, iwriter, hreq, hpassed, hres, hcalls,
                 serveErr, errPc, errRet, spc, upstreamClosed, hcut, waitErr,
                 sigChan, toStop, errCtx>>

\* What the client gets of a response the handler wrote: nothing but a
\* closed connection when the server closed the connection meanwhile.
Delivered(c, response) == IF hcut[c] THEN "cut" ELSE response

\* if reverseProxy == nil { w.WriteHeader(http.StatusOK); return }
\* reverseProxy.ServeHTTP(w, r): the request goes upstream with what r.Body
\* yields, and the upstream's response is relayed; a body cut by a read error
\* or an upstream that fails gives 502. A reverse proxy made of a nil URL
\* dereferences it: the handler panics and the server drops the connection.
HttpRespond(c, answer) ==
  /\ hpc[c] = "respond"
  /\ hpc' = [hpc EXCEPT ![c] = "idle"]
  /\ CASE reverseProxy = "none" ->
            /\ answer = "ok"
            /\ hres' = [hres EXCEPT ![c] = Delivered(c, "200")]
            /\ UNCHANGED <<hpassed, hrest>>
       [] reverseProxy = "niltarget" ->
            /\ answer = "ok"
            /\ hres' = [hres EXCEPT ![c] = "panic"]
            /\ UNCHANGED <<hpassed, hrest>>
       [] reverseProxy = "target" ->
            /\ hpassed' = [hpassed EXCEPT ![c] =
                 [bytes |-> hrest[c].bytes, whole |-> ~hrest[c].cut, made |-> TRUE]]
            /\ hrest' = [hrest EXCEPT ![c] = [bytes |-> <<>>, cut |-> hrest[c].cut]]
            /\ hres' = [hres EXCEPT ![c] = Delivered(c,
                 IF hrest[c].cut \/ answer # "ok" THEN "502" ELSE "upstream")]
  /\ UNCHANGED <<listening, grpcSet, sockFile, broadcast, broadcastClosed,
                 streams, streamsNil, streamCh, chClosed, closeOnce, stats,
                 startPc, loopPc, cur, cpc, ppc, pev, kpc, panicked, emitted,
                 accepted, delivered, regMark, missed, closeRuns, pathEntry,
                 bound, dpc, xpc, polls, spawns, cli, rpc, toStart, fe,
                 feBound, feServe, upstreamConn, startCalls, epc, ereq,
                 client, eret, calls, inspected, emitterGot, upstreamGot,
                 mpc, mkind, eclient, econn, mconn, mret, conns, usedConns,
                 rpcs, mcalls, meters, emitErrs, reverseProxy, iwriter, hreq,
                 hreadAll, hcalls, serveErr, errPc, errRet, spc,
                 upstreamClosed, hcut, waitErr, sigChan, toStop, errCtx>>

\* Start, the RPC handlers and broadcastLoop.
ServingNext(Ps, Cs, Evs, max) ==
  \/ StartRemove
  \/ StartListenOk
  \/ StartListenErr
  \/ \E p \in Ps, ev \in Evs : EmitEnter(p, ev, max)
  \/ \E p \in Ps, ctxDone \in BOOLEAN : EmitSelect(p, ctxDone)
  \/ \E p \in Ps : EmitStats(p)
  \/ \E p \in Ps : EmitReturn(p)
  \/ LoopRecv
  \/ LoopDistribute
  \/ \E c \in Cs : StreamRegister(c)
  \/ \E c \in Cs, sendOk \in BOOLEAN : StreamSend(c, sendOk)
  \/ \E c \in Cs : StreamReturn(c)
  \/ \E c \in Cs : StreamDeregister(c)
  \/ \E c \in Cs : StreamCloseCh(c)

\* Close and what follows from it.
ShutdownNext(Ks) ==
  \/ LoopExit
  \/ \E k \in Ks : CloseCall(k)
  \/ \E k \in Ks : CloseStopAccepting(k)
  \/ \E k \in Ks : CloseDrained(k)
  \/ \E k \in Ks : CloseBroadcast(k)
  \/ \E k \in Ks : CloseStreams(k)
  \/ \E k \in Ks : CloseRemove(k)
  \/ \E k \in Ks : CloseWaited(k)

LifeIdle ==
  /\ pathEntry = "absent"
  /\ bound = {}
  /\ dpc = [d \in Proxies |-> "none"]
  /\ xpc = [x \in Proxies |-> "idle"]
  /\ polls = [x \in Proxies |-> 0]
  /\ spawns = [x \in Proxies |-> 0]

\* Fan-out on a serving server: one producer, two consumers.
Init == InitServer /\ LifeIdle /\ ProxyIdle
Next == ServingNext({"p1"}, Consumers, Events, MaxEmits)
Spec == Init /\ [][Next]_vars

\* Shutdown: one producer, two consumers, two callers of Close.
CloseNext ==
  \/ ServingNext({"p1"}, Consumers, Events, CloseEmits)
  \/ ShutdownNext(Closers)
CloseSpec == Init /\ [][CloseNext]_vars

\* Fan-out under a fair scheduler, one producer and one consumer: the
\* distribution loop goroutine and the deferred cleanup of a returning Stream
\* handler are always eventually run; nothing is assumed of producers, of
\* clients, or of a handler's send to its client.
FairNext == ServingNext({"p1"}, {"A"}, Events, MaxEmits)
FairSpec ==
  /\ Init /\ [][FairNext]_vars
  /\ WF_vars(LoopRecv)
  /\ WF_vars(LoopDistribute)
  /\ WF_vars(StreamDeregister("A"))
  /\ WF_vars(StreamCloseCh("A"))

\* The socket-backed Emitter: two goroutines calling its emit methods.
EmitterNext ==
  \/ \E c \in Callers, kind \in EmitKinds : EmitCall(c, kind)
  \/ \E c \in Callers : ConnectCheck(c)
  \/ \E c \in Callers, ok \in BOOLEAN : ConnectNewClient(c, ok)
  \/ \E c \in Callers : ConnectAssignConn(c)
  \/ \E c \in Callers : ConnectAssignClient(c)
  \/ \E c \in Callers, ok \in BOOLEAN : EmitMarshal(c, ok)
  \/ \E c \in Callers, ok \in BOOLEAN : EmitRpc(c, ok)
EmitterSpec == Init /\ [][EmitterNext]_vars

\* The daemon lifecycle: two proxies ensuring a daemon on one socket path.
ServerIdle == InitServer /\ sockFile = "none"
LifeInit == ServerIdle /\ InitLife /\ ProxyIdle
LifeSpec == LifeInit /\ [][LifeNext]_vars

\* The Stats Ledger: two producers emitting events of every kind, with payloads
\* of different sizes, and one consumer.
StatEvents ==
  {[id |-> 0, type |-> "TRACE", len |-> 1],
   [id |-> 0, type |-> "METRIC", len |-> 2],
   [id |-> 0, type |-> "LOG", len |-> 0],
   [id |-> 0, type |-> "UNSPECIFIED", len |-> 2]}
StatsNext == ServingNext(Producers, {"A"}, StatEvents, StatEmits)
StatsSpec == Init /\ [][StatsNext]_vars

\* The proxy process: run() with every combination of its flags, its call of
\* EnsureServerRunning and the daemon it spawns, on a path where another
\* process's daemon may already be serving.
CliFlags ==
  [emit : BOOLEAN, relayMetrics : BOOLEAN, listenHttp : BOOLEAN,
   upstreamHttp : UpstreamHttpFlags, listen : BOOLEAN, upstream : BOOLEAN]
RunInitial ==
  /\ ServerIdle
  /\ \/ LifeIdle
     \/ /\ pathEntry = "x2" /\ bound = {"x2"}
        /\ dpc = [d \in Proxies |-> IF d = "x2" THEN "serving" ELSE "none"]
        /\ xpc = [x \in Proxies |-> "idle"]
        /\ polls = [x \in Proxies |-> 0]
        /\ spawns = [x \in Proxies |-> 0]
  /\ cli \in CliFlags
  /\ rpc = "begin"
  /\ NoFrontEnd
  /\ NoExport
RunNext ==
  \/ RunBegin
  \/ rpc = "ensure" /\ EnsureProbe(Runner)
  \/ rpc = "ensure" /\ \E started \in BOOLEAN : EnsureSpawn(Runner, started)
  \/ rpc = "ensure" /\ EnsurePoll(Runner)
  \/ rpc = "ensure" /\ EnsureTimeout(Runner)
  \/ DaemonStartRemove(Runner)
  \/ DaemonStartListen(Runner)
  \/ \E d \in Proxies : DaemonSignal(d)
  \/ \E d \in Proxies : DaemonCloseRemove(d)
  \/ RunEnsureReturn
  \/ \E initOk \in BOOLEAN : RunInit(initOk)
  \/ \E clientOk, bindOk \in BOOLEAN : RunStartProxy(clientOk, bindOk)
  \/ RunStarted
  \/ \E bindOk \in BOOLEAN : HTTPListenAndServe(bindOk)
  \/ \E f \in FrontEnds : ErrReturn(f)
RunSpec == RunInitial /\ [][RunNext]_vars

\* The binary-RPC front end serving, with and without an upstream, in a proxy
\* process whose EnsureServerRunning found a daemon serving: two callers
\* making export calls of every service.
ExportInitial ==
  /\ ServerIdle
  /\ pathEntry = "x2" /\ bound = {"x2"}
  /\ dpc = [d \in Proxies |-> IF d = "x2" THEN "serving" ELSE "none"]
  /\ xpc = [x \in Proxies |-> IF x = Runner THEN "ok" ELSE "idle"]
  /\ polls = [x \in Proxies |-> 0]
  /\ spawns = [x \in Proxies |-> 0]
  /\ \E u \in BOOLEAN :
       /\ cli = [emit |-> TRUE, relayMetrics |-> TRUE, listenHttp |-> FALSE,
                 upstreamHttp |-> "", listen |-> TRUE, upstream |-> u]
       /\ upstreamConn = u
  /\ Serving({"grpc"}, {})
  /\ reverseProxy = "none"
  /\ iwriter = FALSE
  /\ NoExport
\* The Export handlers of the callers Cs, with the Emitter's outcomes EmitOks.
ExportServing(Cs, EmitOks) ==
  \/ \E c \in Cs, service \in Services : ExportBegin(c, service)
  \/ \E c \in Cs, emitOk \in EmitOks : ExportInspect(c, emitOk)
  \/ \E c \in Cs : ExportClient(c)
  \/ \E c \in Cs, answer \in {"ok"} \cup UpstreamErrors : ExportForward(c, answer)
\* Concurrent exports while the daemon takes every event.
ExportNext == ExportServing(Callers, {TRUE})
ExportSpec == ExportInitial /\ [][ExportNext]_vars

\* The HTTP front end serving: the Emitter is the socket one (its daemon
\* serving) or the no-op one, the writer is stdout or io.Discard, an upstream
\* URL is set, unset or unparsable.
HttpInitial ==
  /\ ServerIdle
  /\ \E e, w \in BOOLEAN, u \in UpstreamHttpFlags :
       /\ cli = [emit |-> e, relayMetrics |-> TRUE, listenHttp |-> TRUE,
                 upstreamHttp |-> u, listen |-> FALSE, upstream |-> FALSE]
       /\ reverseProxy = ReverseProxyOf(u)
       /\ iwriter = w
       /\ IF e
            THEN /\ pathEntry = "x2" /\ bound = {"x2"}
                 /\ dpc = [d \in Proxies |-> IF d = "x2" THEN "serving" ELSE "none"]
                 /\ xpc = [x \in Proxies |-> IF x = Runner THEN "ok" ELSE "idle"]
            ELSE /\ pathEntry = "absent" /\ bound = {}
                 /\ dpc = [d \in Proxies |-> "none"]
                 /\ xpc = [x \in Proxies |-> "idle"]
  /\ polls = [x \in Proxies |-> 0]
  /\ spawns = [x \in Proxies |-> 0]
  /\ Serving({"http"}, {})
  /\ upstreamConn = FALSE
  /\ NoExport
HttpServing(Cs) ==
  \/ \E c \in Cs, req \in HttpRequests : HttpBegin(c, req)
  \/ \E c \in Cs, emitOk \in BOOLEAN : HttpInspect(c, emitOk)
  \/ \E c \in Cs, answer \in {"ok", "unreachable"} : HttpRespond(c, answer)
HttpNext == HttpServing({"a1"})
HttpSpec == HttpInitial /\ [][HttpNext]_vars

\* Both front ends started, exports on each that the upstream (if any)
\* answers, and Stop called on each at any moment; a serving loop may also
\* end on its own.
StopRequests ==
  {[id |-> 0, path |-> p, ctype |-> "application/x-protobuf", sent |-> <<10, 0>>,
    cut |-> FALSE] : p \in {"/v1/traces", "/health"}}
StopInitial ==
  /\ ServerIdle
  /\ pathEntry = "x2" /\ bound = {"x2"}
  /\ dpc = [d \in Proxies |-> IF d = "x2" THEN "serving" ELSE "none"]
  /\ xpc = [x \in Proxies |-> IF x = Runner THEN "ok" ELSE "idle"]
  /\ polls = [x \in Proxies |-> 0]
  /\ spawns = [x \in Proxies |-> 0]
  /\ \E u \in BOOLEAN :
       /\ cli = [emit |-> TRUE, relayMetrics |-> TRUE, listenHttp |-> TRUE,
                 upstreamHttp |-> "", listen |-> TRUE, upstream |-> u]
       /\ upstreamConn = u
       /\ reverseProxy = ReverseProxyOf("")
  /\ iwriter = FALSE
  /\ \E P \in SUBSET {"http"} : Serving(FrontEnds, P)
  /\ NoExport
StopNext ==
  \/ ExportBegin("a1", "trace")
  \/ ExportInspect("a1", TRUE)
  \/ ExportClient("a1")
  \/ ExportForward("a1", "ok")
  \/ \E req \in StopRequests : HttpBegin("a2", req)
  \/ HttpInspect("a2", TRUE)
  \/ HttpRespond("a2", "ok")
  \/ \E bindOk \in BOOLEAN : HTTPListenAndServe(bindOk)
  \/ \E f \in FrontEnds : ServeFails(f)
  \/ HTTPStop
  \/ HTTPServeClosed
  \/ OTLPStopBegin
  \/ OTLPStopDrained
  \/ OTLPStopConnClose
  \/ \E f \in FrontEnds : ErrReturn(f)
StopSpec == StopInitial /\ [][StopNext]_vars

\* run() from its first Start to its return, with every combination of front
\* ends: the serving loops may fail to bind or fail later, signals arrive
\* once signal.Notify is in place. The scheduler is fair to run() and to the
\* goroutines it and the front ends launched; nothing is assumed of signals
\* or of failures.
SignalInitial ==
  /\ ServerIdle /\ LifeIdle
  /\ \E h, g, u \in BOOLEAN :
       /\ cli = [emit |-> FALSE, relayMetrics |-> FALSE, listenHttp |-> h,
                 upstreamHttp |-> "", listen |-> g, upstream |-> u]
       /\ toStart = Listed(cli)
       /\ fe = [f \in FrontEnds |->
            IF (f = "http" /\ h) \/ (f = "grpc" /\ g) THEN "new" ELSE "none"]
  /\ rpc = "start"
  /\ NoShutdown
  /\ feBound = [f \in FrontEnds |-> FALSE]
  /\ feServe = [f \in FrontEnds |-> "off"]
  /\ upstreamConn = FALSE
  /\ startCalls = <<>>
  /\ reverseProxy = "none"
  /\ iwriter = FALSE
  /\ serveErr = [f \in FrontEnds |-> OpenChannel]
  /\ errPc = [f \in FrontEnds |-> "off"]
  /\ errRet = [f \in FrontEnds |-> "none"]
  /\ spc = [f \in FrontEnds |-> "idle"]
  /\ upstreamClosed = FALSE
  /\ NoExport
\* run() has returned: with nil or an error from its select, or with the
\* error of a Start. main() then returns or calls os.Exit(1), which ends the
\* process and every goroutine in it.
RunReturns == {"ret_nil", "ret_sig_nil", "ret_sig_err", "ret_proxy_err", "err_start"}
ProcessRuns == rpc \notin RunReturns
RunStartAny == \E clientOk, bindOk \in BOOLEAN : RunStartProxy(clientOk, bindOk)
HTTPListenAny == ProcessRuns /\ \E bindOk \in BOOLEAN : HTTPListenAndServe(bindOk)
ErrReturns(f) == ProcessRuns /\ ErrReturn(f)
ErrSends(f) == ProcessRuns /\ ErrSend(f)
HTTPServeCloses == ProcessRuns /\ HTTPServeClosed
SignalNext ==
  \/ RunStartAny
  \/ RunStarted
  \/ HTTPListenAny
  \/ \E f \in FrontEnds : ProcessRuns /\ ServeFails(f)
  \/ \E f \in FrontEnds : ErrReturns(f)
  \/ \E f \in FrontEnds : ErrSends(f)
  \/ SignalArrives
  \/ RunSelect
  \/ \E f \in FrontEnds : RunStop(f)
  \/ RunStopReturned
  \/ RunStopNone
  \/ HTTPServeCloses
  \/ OTLPStopDrained
  \/ OTLPStopConnClose
  \/ RunAfterSignal
SignalSpec ==
  /\ SignalInitial /\ [][SignalNext]_vars
  /\ WF_vars(RunStartAny) /\ WF_vars(RunStarted) /\ WF_vars(HTTPListenAny)
  /\ \A f \in FrontEnds :
       WF_vars(ErrReturns(f)) /\ WF_vars(ErrSends(f)) /\ WF_vars(RunStop(f))
  /\ WF_vars(RunSelect) /\ WF_vars(RunStopReturned) /\ WF_vars(RunStopNone)
  /\ WF_vars(HTTPServeCloses) /\ WF_vars(OTLPStopDrained)
  /\ WF_vars(OTLPStopConnClose) /\ WF_vars(RunAfterSignal)

\* Exports one after the other while the Emitter succeeds or fails.
EmitFailNext == ExportServing({"a1"}, BOOLEAN)
EmitFailSpec == ExportInitial /\ [][EmitFailNext]_vars

\* ================================================================ claims
\* What has been accepted and not yet distributed, oldest first.
InFlight == (IF loopPc = "dist" THEN <<cur>> ELSE <<>>) \o broadcast
\* What consumer c has been sent, holds in its queue or is still to get.
Pipeline(c) == delivered[c] \o streamCh[c] \o InFlight
Streaming(c) == cpc[c] = "loop"

\* C1: a consumer whose Stream call is running and whose queue was never full
\* at a distribution has received, holds or is about to get every event Emit
\* accepted after its registration, each once and in the order of acceptance.
C1_OrderedExactDelivery ==
  \A c \in Consumers :
    (Streaming(c) /\ ~missed[c]) =>
      AfterMark(Pipeline(c), regMark[c]) = AfterMark(accepted, regMark[c])

C1_Witness ==
  \E c \in Consumers :
    /\ Streaming(c) /\ ~missed[c] /\ regMark[c] = 0
    /\ Len(accepted) = MaxEmits
    /\ delivered[c] = accepted

\* C2: every event delivered to a consumer was accepted after the consumer's
\* registration completed.
C2_DeliveredAcceptedAfterRegistration ==
  \A c \in Consumers :
    \A i \in 1..Len(delivered[c]) : delivered[c][i].id > regMark[c]

\* C5: whatever the other consumers' queues, a consumer whose own queue was
\* never full gets every accepted event; a consumer that never drains holds at
\* most the queue capacity.
C5_FullQueueDropsForThatConsumerOnly ==
  /\ \A a, b \in Consumers :
       (a # b /\ a \in streams /\ missed[a] /\ Streaming(b) /\ ~missed[b]) =>
         AfterMark(Pipeline(b), regMark[b]) = AfterMark(accepted, regMark[b])
  /\ \A a \in Consumers :
       delivered[a] = <<>> => Len(streamCh[a]) <= StreamCap

C5_Witness ==
  \E a, b \in Consumers :
    /\ a # b /\ Streaming(a) /\ Streaming(b)
    /\ missed[a] /\ delivered[a] = <<>> /\ Len(streamCh[a]) = StreamCap
    /\ ~missed[b] /\ regMark[b] = 0
    /\ Len(accepted) > StreamCap /\ delivered[b] = accepted

\* C6: with two consumers whose queues were never full, each event accepted
\* after both registered is in both consumers' streams.
C6_FanOutDuplicates ==
  \A a, b \in Consumers :
    (a # b /\ Streaming(a) /\ Streaming(b) /\ ~missed[a] /\ ~missed[b]) =>
      LET m == IF regMark[a] > regMark[b] THEN regMark[a] ELSE regMark[b] IN
        /\ AfterMark(Pipeline(a), m) = AfterMark(accepted, m)
        /\ AfterMark(Pipeline(b), m) = AfterMark(accepted, m)

C6_Witness ==
  \E a, b \in Consumers :
    /\ a # b /\ Streaming(a) /\ Streaming(b) /\ ~missed[a] /\ ~missed[b]
    /\ Len(accepted) >= 2
    /\ delivered[a] = accepted /\ delivered[b] = accepted

\* C7: Emit's select with the intake queue full and the context not done
\* returns success and enqueues nothing; the select can always be taken; and
\* no dropped event is in a queue or delivered.
C7_FullIntakeDropsWithSuccess ==
  /\ [][\A p \in Producers :
          (EmitSelect(p, FALSE) /\ Len(broadcast) >= BroadcastCap) =>
             /\ ppc'[p] = "ret_ok"
             /\ broadcast' = broadcast
             /\ accepted' = accepted]_vars
  /\ [](\A p \in Producers : ppc[p] = "select" => ENABLED EmitSelect(p, FALSE))
  /\ [](LET
            \* Ids of the events Emit did not enqueue, and of the events in a queue or
            \* delivered.
            Dropped == (1..emitted) \ Ids(accepted)
            Held ==
              Ids(InFlight) \cup UNION {Ids(streamCh[c]) \cup Ids(delivered[c]) : c \in Consumers}
        IN
        Held \cap Dropped = {})

C7_Witness ==
  LET
    \* Ids of the events Emit did not enqueue, and of the events in a queue or
    \* delivered.
    Dropped == (1..emitted) \ Ids(accepted)
  IN
  \E p \in Producers :
    /\ ppc[p] = "ret_ok" /\ pev[p].id \in Dropped
    /\ Len(broadcast) = BroadcastCap

\* C8: once Close is called on a serving server it reaches Closed whatever the
\* consumers do: while Close is in progress the server can take a step by
\* itself.
C8_CloseReachesClosed ==
  LET
    \* A step the server takes by itself: no client ends a stream, breaks a send,
    \* cancels a context or makes a call.
    ServerStep ==
      \/ LoopRecv \/ LoopDistribute \/ LoopExit
      \/ \E p \in Producers : EmitSelect(p, FALSE) \/ EmitStats(p) \/ EmitReturn(p)
      \/ \E c \in Consumers : StreamSend(c, TRUE) \/ StreamDeregister(c) \/ StreamCloseCh(c)
      \/ \E k \in Closers : CloseStopAccepting(k) \/ CloseDrained(k) \/ CloseBroadcast(k)
                            \/ CloseStreams(k) \/ CloseRemove(k)
  IN
    closeOnce = "running" => ENABLED ServerStep

\* C9: no consumer is in the tracked set with its queue closed, and the
\* distribution loop has not sent on a closed queue.
C9_NoClosedQueueRegistered ==
  /\ \A c \in streams : ~chClosed[c]
  /\ panicked # "send on closed channel"

C9_Witness ==
  /\ closeOnce = "running" /\ loopPc = "dist"
  /\ \E c, d \in Consumers : chClosed[c] /\ d \in streams

\* C10: however many times Close is called, its steps run once; a call after
\* that returns and changes nothing of the server.
C10_CloseIdempotent ==
  /\ [](closeRuns <= 1 /\ Alive)
  /\ [][LET
            \* The Server's own fields.
            serverVars == <<listening, grpcSet, sockFile, broadcast, broadcastClosed,
                            streams, streamsNil, streamCh, chClosed, closeOnce, stats>>
        IN
        \A k \in Closers :
          (CloseCall(k) /\ closeOnce = "done") =>
             (kpc'[k] = "done" /\ UNCHANGED serverVars)]_vars

C10_Witness ==
  /\ closeOnce = "done" /\ closeRuns = 1
  /\ \A k \in Closers : kpc[k] = "done"

\* C3: at most one daemon is serving on the socket path.
C3_AtMostOneServing == Cardinality({d \in Proxies : dpc[d] = "serving"}) <= 1

\* C4: while a daemon is serving, the entry at the path is its socket.
C4_ServingStaysReachable == \A d \in Proxies : dpc[d] = "serving" => pathEntry = d

RECURSIVE BytesOf(_)
BytesOf(q) == IF q = <<>> THEN 0 ELSE Head(q).len + BytesOf(Tail(q))
ObservedSum ==
  GetStats.traces_observed + GetStats.metrics_observed + GetStats.logs_observed

\* C11: no observed counter ever decreases, and each kind counter is at most
\* the number of events of that kind Emit enqueued on the intake queue (so
\* their sum is at most the number of enqueued events of those kinds, and an
\* event dropped at a full intake queue is not counted); likewise the bytes.
C11_CountersMonotoneAndBounded ==
  /\ [][/\ GetStats'.traces_observed >= GetStats.traces_observed
        /\ GetStats'.metrics_observed >= GetStats.metrics_observed
        /\ GetStats'.logs_observed >= GetStats.logs_observed
        /\ GetStats'.bytes_observed >= GetStats.bytes_observed]_vars
  /\ [](LET
            \* Events of a queue of one kind, of the counted kinds, and their bytes.
            CountOf(q, t) == Cardinality({i \in 1..Len(q) : q[i].type = t})
            Kinds == {"TRACE", "METRIC", "LOG"}
            KindCount(q) == Cardinality({i \in 1..Len(q) : q[i].type \in Kinds})
        IN
        /\ GetStats.traces_observed <= CountOf(accepted, "TRACE")
        /\ GetStats.metrics_observed <= CountOf(accepted, "METRIC")
        /\ GetStats.logs_observed <= CountOf(accepted, "LOG")
        /\ ObservedSum <= KindCount(accepted)
        /\ GetStats.bytes_observed <= BytesOf(accepted))

\* Two Emit calls have returned success, one event was dropped at the full
\* intake queue and the other, of a counted kind, is counted.
C11_Witness ==
  LET
    \* Ids of the events Emit did not enqueue, and of the events in a queue or
    \* delivered.
    Dropped == (1..emitted) \ Ids(accepted)
    Kinds == {"TRACE", "METRIC", "LOG"}
  IN
  /\ emitted = 2 /\ Len(accepted) = 1 /\ Cardinality(Dropped) = 1
  /\ \A p \in Producers : ppc[p] = "idle"
  /\ ObservedSum = 1 /\ accepted[1].type \in Kinds
  /\ GetStats.bytes_observed = accepted[1].len

\* C12: the events of the counted kinds placed on the intake queue are at
\* most as many as the kind counters say, and every event a consumer was sent
\* is counted.
C12_CountedBeforeQueued ==
  LET
    Kinds == {"TRACE", "METRIC", "LOG"}
    KindCount(q) == Cardinality({i \in 1..Len(q) : q[i].type \in Kinds})
  IN
  /\ KindCount(accepted) <= ObservedSum
  /\ \A c \in Consumers : KindCount(delivered[c]) <= ObservedSum

\* C13: every event in a consumer's queue or delivered to it is an accepted
\* event, with its type and payload, and no accepted event is there twice.
C13_DeliveredAsAccepted ==
  \A c \in Consumers :
    LET got == delivered[c] \o streamCh[c] IN
      /\ \A i \in 1..Len(got) : \E j \in 1..Len(accepted) : got[i] = accepted[j]
      /\ \A i, j \in 1..Len(got) : got[i].id = got[j].id => i = j

C13_Witness ==
  \E c \in Consumers :
    /\ Len(delivered[c]) = 2 /\ delivered[c] = accepted
    /\ delivered[c][1].type # delivered[c][2].type
    /\ delivered[c][1].len # delivered[c][2].len

\* EnsureServerRunning has returned nil from its first dial; it is past the
\* first dial, which failed.
ReturnedAtProbe(x) == xpc[x] = "ok" /\ polls[x] = 0
\* C14 as stated: a first dial that succeeds returns nil at once and spawns
\* nothing; a call whose first dial failed has spawned exactly one child.
C14_OneChildWhenProbeFails ==
  LET
    PastFailedProbe(x) == xpc[x] \in {"spawn", "poll", "err_spawn", "err_timeout"} \/ (xpc[x] = "ok" /\ polls[x] > 0)
    PastSpawn(x) == PastFailedProbe(x) /\ xpc[x] # "spawn"
  IN
  \A x \in Proxies :
    /\ ReturnedAtProbe(x) => spawns[x] = 0
    /\ PastSpawn(x) => spawns[x] = 1

\* C14 amended: a first dial that succeeds returns nil at once, spawning
\* nothing and making no poll; a call whose first dial failed calls cmd.Start
\* once, which starts one child, or none when cmd.Start fails, and then the
\* call returns that error without polling.
C14_ProbeDecidesSpawn ==
  /\ [][\A x \in Proxies :
          (EnsureProbe(x) /\ CanDial) =>
             (xpc'[x] = "ok" /\ spawns' = spawns /\ dpc' = dpc)]_vars
  /\ [](LET
            PastFailedProbe(x) == xpc[x] \in {"spawn", "poll", "err_spawn", "err_timeout"} \/ (xpc[x] = "ok" /\ polls[x] > 0)
            PastSpawn(x) == PastFailedProbe(x) /\ xpc[x] # "spawn"
        IN
        \A x \in Proxies :
          /\ ReturnedAtProbe(x) => (spawns[x] = 0 /\ dpc[x] = "none")
          /\ xpc[x] \in {"idle", "spawn"} => spawns[x] = 0
          /\ PastSpawn(x) => spawns[x] = (IF xpc[x] = "err_spawn" THEN 0 ELSE 1)
          /\ xpc[x] = "err_spawn" => (polls[x] = 0 /\ dpc[x] = "none"))

\* One proxy returned at its first dial, having spawned nothing, because the
\* one daemon another proxy spawned answers.
C14_Witness ==
  \E x, y \in Proxies :
    /\ ReturnedAtProbe(x) /\ spawns[x] = 0
    /\ xpc[y] = "ok" /\ polls[y] > 0 /\ spawns[y] = 1 /\ dpc[y] = "serving"

\* C15: after spawning, EnsureServerRunning returns nil only in a round whose
\* dial succeeded; it makes at most MaxPolls rounds; after MaxPolls failed
\* rounds it makes no further round and returns the timeout error, which it
\* returns in no other case.
C15_PollBudget ==
  /\ [][\A x \in Proxies :
          (xpc[x] = "poll" /\ xpc'[x] = "ok") => (CanDial /\ polls'[x] = polls[x] + 1)]_vars
  /\ [](\A x \in Proxies :
          /\ polls[x] <= MaxPolls
          /\ xpc[x] = "err_timeout" => polls[x] = MaxPolls
          /\ (xpc[x] = "poll" /\ polls[x] = MaxPolls) =>
                (ENABLED EnsureTimeout(x) /\ ~ENABLED EnsurePoll(x))
          /\ (xpc[x] = "poll" /\ polls[x] < MaxPolls) =>
                (ENABLED EnsurePoll(x) /\ ~ENABLED EnsureTimeout(x)))

\* One call timed out after MaxPolls rounds, another returned nil from its
\* last round.
C15_Witness ==
  \E x, y \in Proxies :
    /\ xpc[x] = "err_timeout" /\ polls[x] = MaxPolls
    /\ xpc[y] = "ok" /\ polls[y] = MaxPolls

\* C16: a round of the poll loop that finds the spawned daemon exited with an
\* error, and the socket not answering, returns the process-exited error.
C16_FailFastOnChildExit ==
  [][\A x \in Proxies :
       (EnsurePoll(x) /\ dpc[x] = "fatal" /\ ~CanDial) => xpc'[x] = "err_exited"]_vars

\* C17: when EnsureServerRunning returns an error to run() of a proxy process
\* started with fan-out enabled, run() returns the error and Start is called
\* on no front end, then or later.
C17_EnsureErrorAbortsStartup ==
  /\ [](LET
            EnsureErrors == {"err_spawn", "err_timeout"}
        IN
        xpc[Runner] \in EnsureErrors =>
          /\ cli.emit /\ rpc \in {"ensure", "err_ensure"}
          /\ startCalls = <<>> /\ \A f \in FrontEnds : fe[f] = "none"
          /\ rpc = "ensure" => ENABLED RunEnsureReturn)
  /\ [](LET
            EnsureErrors == {"err_spawn", "err_timeout"}
        IN
        rpc = "err_ensure" => xpc[Runner] \in EnsureErrors)
  /\ [][rpc = "err_ensure" => UNCHANGED <<rpc, startCalls, fe, toStart, feServe>>]_vars

C17_Witness ==
  /\ rpc = "err_ensure" /\ xpc[Runner] = "err_timeout"
  /\ cli.emit /\ cli.listen /\ cli.listenHttp
  /\ startCalls = <<>>

\* C20: a front end's Start has returned nil only if its listener is bound,
\* and has returned an error if its address could not be bound.
C20_StartNilOnlyWhenBound ==
  LET
    \* The front end's address could not be bound.
    BindFailed(f) == fe[f] = "err_listen" \/ feServe[f] = "err_bind"
  IN
  \A f \in FrontEnds :
    /\ fe[f] = "started" => feBound[f]
    /\ BindFailed(f) => fe[f] # "started"

Returned(c) == epc[c] = "idle" /\ eret[c] # NoResult
IdsOf(q) == {q[i].id : i \in 1..Len(q)}

C27_CloseStepsInOrder ==
  [][/\ (broadcastClosed' /\ ~broadcastClosed) =>
          (~listening /\ StreamsInFlight = {} /\ EmitsInFlight = {} /\ ~streamsNil
             /\ closeOnce = "running")
     /\ (streamsNil' /\ ~streamsNil) => (broadcastClosed /\ closeOnce = "running")
     /\ (closeOnce = "running" /\ sockFile' # sockFile) =>
          (streamsNil /\ broadcastClosed /\ ~listening /\ closeOnce' = "done")
     /\ (closeOnce' = "done" /\ closeOnce # "done") => (streamsNil /\ sockFile' = "none")
     /\ (closeOnce = "running" /\ listening' # listening) =>
          (~listening' /\ ~broadcastClosed /\ ~streamsNil)]_vars

C27_Witness ==
  /\ closeOnce = "done" /\ grpcSet /\ ~listening
  /\ broadcastClosed /\ streamsNil /\ sockFile = "none"
  /\ accepted # <<>> /\ \E c \in Consumers : cpc[c] = "done"

\* C28: the active-readers stat equals the number of registered consumers in
\* every state (the locked sections are single steps), also once Close has
\* cleared the set.
C28_ActiveReadersIsSetSize == stats.activeReaders = Cardinality(streams)

C28_Witness ==
  /\ streamsNil /\ closeOnce = "done" /\ stats.activeReaders = 0
  /\ \A c \in Consumers : cpc[c] = "done"

\* C29: a Stream handler that has left its loop (client end-of-stream or
\* error, failed send) is eventually deregistered and its queue closed; once
\* it has returned the consumer is not in the set, its queue is closed, and
\* nothing more is queued for it or delivered to it.
C29_EndedStreamDeregistered ==
  /\ \A c \in Consumers :
       (cpc[c] = "cleanup") ~> (cpc[c] = "done" /\ c \notin streams /\ chClosed[c])
  /\ [](\A c \in Consumers : cpc[c] = "done" => (c \notin streams /\ chClosed[c]))
  /\ [][\A c \in Consumers : cpc[c] = "done" =>
          /\ cpc'[c] = "done" /\ c \notin streams'
          /\ streamCh'[c] = streamCh[c] /\ delivered'[c] = delivered[c]]_vars

C29_Witness ==
  \E c \in Consumers :
    /\ cpc[c] = "done" /\ c \notin streams /\ chClosed[c]
    /\ delivered[c] # <<>> /\ streamCh[c] # <<>>
    /\ Len(accepted) > Len(delivered[c]) + Len(streamCh[c])
    /\ broadcast = <<>> /\ loopPc = "recv"

\* C30: under the fair scheduler every event on the intake queue is
\* eventually taken off it by the distribution loop, with no assumption on the
\* consumers, and the loop body can always run: it waits for no consumer.
C30_IntakeAlwaysDrained ==
  /\ \A n \in 1..MaxEmits : (n \in Ids(broadcast)) ~> (n \notin Ids(broadcast))
  /\ [](loopPc = "dist" => ENABLED LoopDistribute)
  /\ [](loopPc = "recv" /\ broadcast # <<>> => ENABLED LoopRecv)

C30_Witness ==
  /\ Len(accepted) = MaxEmits /\ broadcast = <<>> /\ loopPc = "recv"
  /\ \E c \in Consumers : c \in streams /\ Len(streamCh[c]) = StreamCap /\ missed[c]

\* C23: whatever the interleaving of the emit calls on one Emitter, at most
\* one client connection is ever created, every Emit RPC goes out on it, and
\* no call ends in a nil dereference.
C23_OneConnectionForAll ==
  /\ conns <= 1
  /\ Cardinality(usedConns) <= 1
  /\ EmitterAlive

\* C24: an export whose emit failed is counted as dropped and goes on as any
\* other: with an upstream it is forwarded and returns what the upstream
\* answered, without one it returns success; no export returns an error
\* other than the upstream's.
C24_EmitErrorNeverAbortsExport ==
  LET
    AnswerTo(id) ==
      LET i == CHOOSE i \in 1..Len(upstreamGot) : upstreamGot[i].id = id IN upstreamGot[i].answer
  IN
  /\ meters.dropped = Cardinality(emitErrs)
  /\ \A c \in Callers :
       /\ eret[c].err \in {"none", "nil"} \cup UpstreamErrors
       /\ (ereq[c] # NoRequest /\ ereq[c].id \in emitErrs) =>
            /\ epc[c] \in {"client", "forward", "idle"}
            /\ Returned(c) =>
                 IF upstreamConn
                   THEN /\ ereq[c].id \in IdsOf(upstreamGot)
                        /\ eret[c] = IF AnswerTo(ereq[c].id) = "ok"
                                       THEN [resp |-> "upstream", err |-> "nil"]
                                       ELSE [resp |-> "none", err |-> AnswerTo(ereq[c].id)]
                   ELSE eret[c] = [resp |-> "zero", err |-> "nil"]

C24_Witness ==
  /\ upstreamConn /\ meters.dropped = 2 /\ meters.written = 1
  /\ \E c \in Callers :
       /\ Returned(c) /\ ereq[c].id \in emitErrs
       /\ ereq[c].id \in IdsOf(upstreamGot)
       /\ eret[c] = [resp |-> "upstream", err |-> "nil"]

ExportPaths == {"/v1/traces", "/v1/metrics", "/v1/logs"}
HttpAnswered(c) == hpc[c] = "idle" /\ hres[c] # "none"

C26_BodyPassedAsReceived ==
  \A c \in Callers :
    (hreq[c].path \in ExportPaths /\ hpassed[c].made) =>
      hpassed[c].bytes = hreq[c].sent

\* C21: on both front ends an export in progress when Stop is called gets
\* its normal response: no response is lost to a closed connection, and Stop
\* is past closing the listener and the connections only when no export of
\* that front end is in progress.
C21_InFlightExportsComplete ==
  /\ \A c \in Callers : hres[c] # "cut"
  /\ spc["http"] = "done" => \A c \in Callers : hpc[c] = "idle"
  /\ spc["grpc"] \in {"connclose", "done"} => \A c \in Callers : epc[c] = "idle"

\* The binary-RPC half of C21.
C21_BinaryRpcDrains ==
  /\ spc["grpc"] \in {"connclose", "done"} => \A c \in Callers : epc[c] = "idle"
  /\ upstreamClosed => \A c \in Callers : epc[c] = "idle"

C31_ActiveWritersIsEmitsInProgress ==
  /\ stats.activeWriters = Cardinality(EmitsInFlight)
  /\ stats.activeWriters >= 0
  /\ EmitsInFlight = {} => stats.activeWriters = 0

\* An Emit call has returned through the context-done path (the intake queue
\* had room, so its event was not dropped for lack of room); a later call has
\* enqueued its event and is still counted.
C31_Witness ==
  /\ emitted = 2 /\ Len(accepted) = 1
  /\ ppc["p1"] = "idle" /\ ppc["p2"] = "stats"
  /\ Last(accepted).id = 2
  /\ stats.activeWriters = 1

\* ---------------------------------------------------------------- C32
\* The content types and bodies, as sent, that the decoder of the content
\* type rejects.
Malformed ==
  ({"application/x-protobuf"} \X {<<10, 2>>, <<123, 125>>, <<255>>})
    \cup ({"application/json"} \X {<<>>, <<10, 0>>, <<10, 2>>, <<255>>})
C33_DecodedExportCountedOnce ==
  [][LET
         \* An HTTP export that arrives whole and that the decoder of its content type
         \* takes.
         Decodable(c) ==
           /\ hreq[c].path \in ExportPaths /\ ~hreq[c].cut
           /\ <<hreq[c].ctype, hreq[c].sent>> \notin Malformed
         HttpInspected(c) == hpc[c] = "inspect" /\ hpc'[c] = "respond"
         GrpcInspected(c) == epc[c] = "inspect" /\ epc'[c] # "inspect"
     IN
     /\ \A c \in Callers :
          /\ (HttpInspected(c) /\ Decodable(c)) =>
                meters'.recv = [meters.recv EXCEPT
                                  !["http"][ServiceOfPath(hreq[c].path)] = @ + 1]
          /\ GrpcInspected(c) =>
                meters'.recv = [meters.recv EXCEPT !["grpc"][ereq[c].service] = @ + 1]
     /\ meters'.recv # meters.recv =>
          \E c \in Callers : HttpInspected(c) \/ GrpcInspected(c)]_vars

\* The binary-RPC half of C33, and the HTTP half where canWrite() holds.
C33_BinaryRpcCountedOnce ==
  [][LET
         GrpcInspected(c) == epc[c] = "inspect" /\ epc'[c] # "inspect"
     IN
     \A c \in Callers :
       GrpcInspected(c) =>
         meters'.recv = [meters.recv EXCEPT !["grpc"][ereq[c].service] = @ + 1]]_vars
C33_HttpCountedWhenWritable ==
  [][LET
         \* An HTTP export that arrives whole and that the decoder of its content type
         \* takes.
         Decodable(c) ==
           /\ hreq[c].path \in ExportPaths /\ ~hreq[c].cut
           /\ <<hreq[c].ctype, hreq[c].sent>> \notin Malformed
         HttpInspected(c) == hpc[c] = "inspect" /\ hpc'[c] = "respond"
     IN
     \A c \in Callers :
       (HttpInspected(c) /\ Decodable(c) /\ CanWrite) =>
         meters'.recv = [meters.recv EXCEPT
                           !["http"][ServiceOfPath(hreq[c].path)] = @ + 1]]_vars

\* ---------------------------------------------------------------- C34
\* C34: an emit call that has ended has issued one Emit RPC if its connection
\* setup and its serialization succeeded and none otherwise; a connection
\* attempt that fails returns its error and leaves e.conn and e.client as
\* they were, and a call that finds e.client nil attempts the connection.
C34_OneRpcPerEmit ==
  /\ [](LET
            \* An emit call that has ended, and one whose connect() and proto.Marshal
            \* both returned no error.
            EmitEnded(c) == mpc[c] = "idle" /\ mret[c] # NoEmit
            SetupSucceeded(c) == mret[c] \notin {"err_connect", "err_marshal"}
        IN
        \A c \in Callers :
          EmitEnded(c) => rpcs[c] = IF SetupSucceeded(c) THEN 1 ELSE 0)
  /\ [][LET
            ConnectFailed(c) == mpc[c] = "newclient" /\ mret'[c] = "err_connect"
        IN
        \A c \in Callers :
          /\ ConnectFailed(c) =>
                (mpc'[c] = "idle" /\ eclient' = eclient /\ econn' = econn
                   /\ rpcs'[c] = 0)
          /\ (mpc[c] = "connect" /\ mpc'[c] # "connect" /\ eclient = 0) =>
                mpc'[c] = "newclient"]_vars

\* C34 for the calls that return: all but the one that read e.client while
\* another call's connect() was writing it.
C34_OneRpcPerReturnedEmit ==
  /\ [](LET
            \* An emit call that has ended, and one whose connect() and proto.Marshal
            \* both returned no error.
            EmitEnded(c) == mpc[c] = "idle" /\ mret[c] # NoEmit
            SetupSucceeded(c) == mret[c] \notin {"err_connect", "err_marshal"}
        IN
        \A c \in Callers :
          (EmitEnded(c) /\ mret[c] # "panic") =>
            rpcs[c] = IF SetupSucceeded(c) THEN 1 ELSE 0)
  /\ [][LET
            ConnectFailed(c) == mpc[c] = "newclient" /\ mret'[c] = "err_connect"
        IN
        \A c \in Callers :
          /\ ConnectFailed(c) =>
                (mpc'[c] = "idle" /\ eclient' = eclient /\ econn' = econn
                   /\ rpcs'[c] = 0)
          /\ (mpc[c] = "connect" /\ mpc'[c] # "connect" /\ eclient = 0) =>
                mpc'[c] = "newclient"]_vars

\* ---------------------------------------------------------------- C35
\* C35: a daemon process is blocked waiting for a signal only after its
\* Start bound the socket, leaves that wait only by the signal step, which is
\* the only step that begins Close on a started server, and returns after
\* Close; a daemon whose Start failed holds no listener, never comes to
\* serve and ends by the fatal exit.
C35_DaemonStartWaitClose ==
  /\ [](LET
            StartFailed == {"startfailed", "fatal"}
        IN
        \A d \in Proxies :
          /\ dpc[d] = "serving" => d \in bound
          /\ dpc[d] \in StartFailed => d \notin bound)
  /\ [][LET
            \* RunDaemon is inside Start, is blocked on sigChan, and has ended by
            \* log.Fatalf.
            InStart == {"start", "listen"}
            StartFailed == {"startfailed", "fatal"}
        IN
        \A d \in Proxies :
          /\ (dpc'[d] = "serving" /\ dpc[d] # "serving") =>
                (dpc[d] = "listen" /\ pathEntry' = d /\ d \in bound')
          /\ (dpc[d] = "serving" /\ dpc'[d] # "serving") => dpc'[d] = "closing"
          /\ (dpc'[d] = "closing" /\ dpc[d] # "closing") =>
                (dpc[d] = "serving" /\ d \notin bound')
          /\ (dpc'[d] = "exited" /\ dpc[d] # "exited") => dpc[d] = "closing"
          /\ dpc[d] \in InStart => dpc'[d] \in InStart \cup {"serving", "startfailed"}
          /\ dpc[d] \in StartFailed => dpc'[d] \in StartFailed
          /\ dpc[d] = "fatal" => dpc'[d] = "fatal"]_vars

\* One daemon served, was signalled and returned after Close; the Start of
\* another failed and it made the fatal exit.
C35_Witness ==
  \E d, e \in Proxies : dpc[d] = "exited" /\ dpc[e] = "fatal"

\* ---------------------------------------------------------------- C36
\* The front ends run() started, those Stop was called on, the ways run()
\* returns from its select, and a serving loop that ended with an error.
AllStopCalled == \A f \in FrontEnds : fe[f] = "started" => spc[f] # "idle"
RunErrors == {"ret_sig_err", "ret_proxy_err", "err_start"}
ServeEndedInError(f) == feServe[f] \in {"exited_err", "err_bind"}

\* The signal half of C36: a signal on sigChan while run() waits leads to
\* Stop called on every started front end, and run() does not return from
\* its select before that.
C36_SignalStopsAll ==
  /\ [](rpc \in {"sig_wait", "ret_sig_nil", "ret_sig_err", "ret_proxy_err", "ret_nil"}
          => AllStopCalled)
  /\ ((rpc = "wait" /\ sigChan) ~> AllStopCalled)

\* C36: the signal half, and a serving loop that ends with an error leads to
\* Stop called on every front end and run() returned with an error.
C36_SignalOrErrorStopsAll ==
  /\ C36_SignalStopsAll
  /\ \A f \in FrontEnds :
       ServeEndedInError(f) ~> (AllStopCalled /\ rpc \in RunErrors)

\* The error half of C36 from the point where run() has received the error
\* from waitErr.
C36_ReceivedErrorStopsAll ==
  (rpc = "err_stopping") ~> (AllStopCalled /\ rpc = "ret_proxy_err")

\* ---------------------------------------------------------------- C37
\* C37: no consumer's queue is closed twice. A Stream call that is about to
\* close its queue finds it open, Close when it is about to close the queues
\* of the registered consumers finds each of them open, and a Stream call
\* that has ended has left its queue closed.
C37_NoQueueClosedTwice ==
  /\ \A c \in Consumers : cpc[c] = "closech" => ~chClosed[c]
  /\ \A k \in Closers :
       kpc[k] = "closestreams" => \A c \in streams : ~chClosed[c]
  /\ \A c \in Consumers : cpc[c] = "done" => chClosed[c]
  /\ \A c \in Consumers : chClosed[c] => c \notin streams

\* Close was called while both consumers were streaming, waited for their
\* handlers, and has run to its end: both queues are closed.
C37_Witness ==
  /\ closeOnce = "done" /\ closeRuns = 1 /\ streamsNil
  /\ \A c \in Consumers : cpc[c] = "done" /\ chClosed[c]
  /\ \A c \in Consumers : delivered[c] # <<>>

\* ---------------------------------------------------------------- C38
\* C38: from the moment Close has closed the intake queue, the server accepts
\* no RPC and no Emit call is in progress, no event is enqueued and no send
\* on the closed queue is attempted; from the moment it has cleared the
\* consumer set, no Stream call is in progress and none inserts into the
\* set. Every Emit and every Stream call has ended before, or comes after the
\* listener was closed and is refused.
C38_NothingEntersAfterClose ==
  /\ [](broadcastClosed =>
          /\ ~listening /\ EmitsInFlight = {} /\ StreamsInFlight = {}
          /\ panicked # "send on closed channel")
  /\ [](streamsNil =>
          /\ broadcastClosed /\ streams = {}
          /\ panicked # "assignment to entry in nil map")
  /\ [][/\ broadcastClosed =>
            (accepted' = accepted /\ emitted' = emitted
               /\ Len(broadcast') <= Len(broadcast) /\ ppc' = ppc)
        /\ streamsNil => (streams' = streams /\ cpc' = cpc)]_vars

\* Events were enqueued and a consumer was served before both callers of
\* Close returned from a Close that closed the intake queue and cleared the set.
C38_Witness ==
  /\ \A k \in Closers : kpc[k] = "done"
  /\ broadcastClosed /\ streamsNil /\ closeOnce = "done"
  /\ emitted = CloseEmits /\ Len(accepted) = CloseEmits
  /\ delivered["A"] # <<>> /\ cpc["B"] = "idle"

\* ---------------------------------------------------------------- C39
\* C39: whenever Emit returns an error the caller's context is done and the
\* event is neither in the intake queue nor among the enqueued events; the
\* step that takes the error return and the return itself change no observed
\* counter and enqueue nothing.  Emit returns an error in no other case: a
\* full queue with a live context returns no error.
C39_EmitErrsOnlyOnContextDone ==
  /\ [](LET
            \* The calls of Emit that are returning an error.
            EmitErrs == {p \in Producers : ppc[p] = "ret_err"}
        IN
        \A p \in EmitErrs :
          /\ errCtx[p] = "done"
          /\ pev[p].id \notin Ids(accepted) \cup Ids(broadcast))
  /\ [][LET
            \* The counters Emit adds to after an enqueue.
            ObservedCounters ==
              <<stats.tracesObserved, stats.metricsObserved, stats.logsObserved,
                stats.bytesObserved>>
        IN
        \A p \in Producers :
          (ppc[p] = "ret_err" \/ ppc'[p] = "ret_err") /\ ppc'[p] # ppc[p]
            => /\ ObservedCounters' = ObservedCounters
               /\ accepted' = accepted
               /\ broadcast' = broadcast]_vars

\* A call of Emit is returning an error after an earlier event was enqueued
\* and counted, while the intake queue still has room.
C39_Witness ==
  /\ ppc["p2"] = "ret_err" /\ errCtx["p2"] = "done"
  /\ accepted # <<>> /\ Len(broadcast) < BroadcastCap
  /\ stats.bytesObserved > 0
  /\ ppc["p1"] = "idle"

====
